---- MODULE Spec2Model ----
(***************************************************************************)
(* A model of the link-resolution and reformatting pipeline of the Aurora  *)
(* static site generator (src/ssg): the Zettel note model, the resolver,   *)
(* the wiki-to-markdown link rewriter, replace_pattern with its code       *)
(* protection, the markdown link formatter and the HTML reconciler.        *)
(*                                                                         *)
(* Text is a sequence of one-character strings, so that the regular        *)
(* expressions of settings.py are computed character by character.         *)
(***************************************************************************)
EXTENDS Integers, Sequences, FiniteSets, TLC

VARIABLES
    zettels,     \* the working list of Zettel records
    identifier,  \* the argument of get_zettel_by_id_or_file_name
    found,       \* [done, index]: the resolver's result (index 0 is None)
    files,       \* rewriter: file contents, one per zettel of the list
    orig,        \* rewriter: the contents before the run (history)
    pos,         \* rewriter: number of zettels the loop has reached
    run,         \* rewriter: "running", "crashed" or "done"
    log,         \* rewriter: the warnings logged, in order
    links_made,  \* rewriter: the markdown links md_linker produced (history)
    rp_pattern,  \* replace_pattern: the pattern it is called with
    rp_file,     \* replace_pattern: the file's contents
    rp_orig,     \* replace_pattern: the contents before the first call
    rp_prev,     \* replace_pattern: the contents before the latest call
    rp_calls,    \* replace_pattern: number of calls made
    rp_total,    \* replace_pattern: total_replaced of the latest call
    rc_old,      \* reconciler: old_html_paths
    rc_new,      \* reconciler: new_html_paths
    rc_ignore,   \* reconciler: the text of ssg-ignore.txt (or NoFile)
    rc_ignored,  \* reconciler: ignored_html_paths after normalisation
    rc_pc,       \* reconciler: "start", "scan", "dialog", "done"
    rc_i,        \* reconciler: index of the old path being examined
    rc_count,    \* reconciler: old_count
    rc_shown,    \* reconciler: paths a confirmation dialog was shown for
    rc_trashed,  \* reconciler: paths sent to the trash
    rc_opens,    \* reconciler: times "Open" was chosen in the current dialog
    rc_log,      \* reconciler: the final log line
    rc_event,    \* reconciler: the last event window.read() returned
    ix_pc,       \* indexes: position in create_md_index_files
    ix_hide,     \* indexes: settings["hide chrono index dates"]
    ix_cat,      \* indexes: the text of categorical-index.md in the site
    ix_alpha,    \* indexes: the text of alphabetical-index.md (or NotWritten)
    ix_chrono,   \* indexes: the text of index.md as written (or NotWritten)
    ds_dir,      \* discovery: the files of the zettelkasten folder, as listed
    ds_pc,       \* discovery: "idle", "listing", "reading", "returned", "raised"
    ds_paths,    \* discovery: zettel_paths
    ds_i,        \* discovery: index of the path being read
    ds_out,      \* discovery: zettels_to_publish
    ap_file,     \* attachment paths: the text of the file on disk
    ap_orig,     \* attachment paths: the text before the call
    ap_exist,    \* attachment paths: the paths os.path.isfile is true for
    ap_total,    \* attachment paths: the number replace_pattern returned
    ap_pc,       \* attachment paths: "idle", "ready", "done"
    cl_disk,     \* calls: the text of each file, by path
    cl_default,  \* calls: the list that is the default value of zettels
    cl_caller,   \* calls: a list of zettels the caller owns
    cl_before,   \* calls: the caller's list when the latest call began
    cl_arg,      \* calls: the arguments of the latest call
    cl_pc,       \* calls: "idle", "ready", "loop", "crashed"
    cl_i,        \* calls: number of zettels the loop has visited
    cl_seen,     \* calls: paths of the zettels the latest call converted
    cl_calls,    \* calls: number of calls made
    cl_log,      \* calls: the warnings logged
    gs_zk,       \* site run: settings["zettelkasten path"]
    gs_settings, \* site run: "hide tags" and "hide chrono index dates"
    gs_fs,       \* site run: the text of each file, by path
    gs_order,    \* site run: the order in which os.listdir names the files
    gs_pc,       \* site run: the stage of generate_site that is next
    gs_i,        \* site run: zettels the link conversion loop has visited
    gs_events,   \* site run: the file operations done, in order
    gs_found,    \* site run: the paths get_zettels_to_publish returned
    gs_old,      \* site run: old_html_paths
    gs_new       \* site run: new_html_paths

vars == <<zettels, identifier, found, files, orig, pos, run, log, links_made,
          rp_pattern, rp_file, rp_orig, rp_prev, rp_calls, rp_total,
          rc_old, rc_new, rc_ignore, rc_ignored, rc_pc, rc_i, rc_count,
          rc_shown, rc_trashed, rc_opens, rc_log, rc_event,
          ix_pc, ix_hide, ix_cat, ix_alpha, ix_chrono,
          ds_dir, ds_pc, ds_paths, ds_i, ds_out,
          ap_file, ap_orig, ap_exist, ap_total, ap_pc,
          cl_disk, cl_default, cl_caller, cl_before, cl_arg, cl_pc, cl_i,
          cl_seen, cl_calls, cl_log,
          gs_zk, gs_settings, gs_fs, gs_order, gs_pc, gs_i, gs_events,
          gs_found, gs_old, gs_new>>

resolveVars == <<zettels, identifier, found>>
rewriteVars == <<files, orig, pos, run, log, links_made>>
replaceVars == <<rp_pattern, rp_file, rp_orig, rp_prev, rp_calls, rp_total>>
reconcileVars == <<rc_old, rc_new, rc_ignore, rc_ignored, rc_pc, rc_i,
                   rc_count, rc_shown, rc_trashed, rc_opens, rc_log,
                   rc_event>>
indexVars == <<ix_pc, ix_hide, ix_cat, ix_alpha, ix_chrono>>
discoverVars == <<ds_dir, ds_pc, ds_paths, ds_i, ds_out>>
attachVars == <<ap_file, ap_orig, ap_exist, ap_total, ap_pc>>
callVars == <<cl_disk, cl_default, cl_caller, cl_before, cl_arg, cl_pc, cl_i,
              cl_seen, cl_calls, cl_log>>
siteVars == <<gs_zk, gs_settings, gs_fs, gs_order, gs_pc, gs_i, gs_events,
              gs_found, gs_old, gs_new>>
stageVars == <<discoverVars, attachVars, callVars, siteVars>>

-----------------------------------------------------------------------------
(* Bounds of the model.                                                    *)

MaxZettels == 3    \* notes in a list handed to the resolver
MaxSegs == 3       \* text segments a generated note body is made of
MaxOpens == 1      \* times the user presses "Open" in one dialog

-----------------------------------------------------------------------------
(* Characters and text.                                                    *)

IdLen == 14

Digit == {"0", "1", "2", "3", "4", "5", "6", "7", "8", "9"}
Lower == {"a", "b", "c", "d", "e", "f", "g", "h", "i", "j", "k", "l", "m",
          "n", "o", "p", "q", "r", "s", "t", "u", "v", "w", "x", "y", "z"}
Upper == {"A", "D", "H", "K", "L", "M", "N", "O", "R", "T", "W"}
WhiteSpace == {" ", "\n", "\t"}
TagChar == Digit \cup Lower \cup Upper \cup {"_", "-"}

\* The backtick of markdown code spans, written as an apostrophe (a string
\* of this language cannot hold a backtick).
Backtick == "'"

\* Python None for an Optional[str]: no text is equal to it.
None == <<"None">>

Min(a, b) == IF a < b THEN a ELSE b
Max(a, b) == IF a > b THEN a ELSE b

\* t[p..] starts with s.
StartsAt(t, p, s) ==
    /\ p >= 1
    /\ p + Len(s) - 1 <= Len(t)
    /\ \A k \in 1..Len(s) : t[p + k - 1] = s[k]

\* str.endswith
EndsWith(t, s) == Len(s) <= Len(t) /\ StartsAt(t, Len(t) - Len(s) + 1, s)

\* "s in t" for Python strings.
Contains(t, s) == \E p \in 1..(Len(t) + 1) : StartsAt(t, p, s)

\* str.find from position p: the first index >= p at which s starts, else 0.
FindFrom(t, p, s) ==
    LET hits == {q \in p..(Len(t) + 1) : StartsAt(t, q, s)}
    IN IF hits = {} THEN 0 ELSE CHOOSE q \in hits : \A r \in hits : q <= r

\* str.replace(old, new): every non-overlapping occurrence, left to right.
RECURSIVE StrReplaceFrom(_, _, _, _)
StrReplaceFrom(t, p, old, new) ==
    IF FindFrom(t, p, old) = 0 \/ FindFrom(t, p, old) > Len(t)
    THEN SubSeq(t, p, Len(t))
    ELSE SubSeq(t, p, FindFrom(t, p, old) - 1) \o new
             \o StrReplaceFrom(t, FindFrom(t, p, old) + Len(old), old, new)

StrReplace(t, old, new) ==
    IF old = <<>> THEN t ELSE StrReplaceFrom(t, 1, old, new)

\* The concatenation of a sequence of texts.
RECURSIVE Concat(_)
Concat(ss) == IF ss = <<>> THEN <<>> ELSE Head(ss) \o Concat(Tail(ss))

\* All sequences over S of length at most n.
SeqsUpTo(S, n) == UNION {[1..k -> S] : k \in 0..n}

\* All orders in which the elements of a finite set can be visited.
Orders(S) ==
    {s \in [1..Cardinality(S) -> S] :
        \A a, b \in 1..Cardinality(S) : a /= b => s[a] /= s[b]}

-----------------------------------------------------------------------------
(* Literal texts.                                                          *)

Id1 == [k \in 1..IdLen |-> "1"]
Id2 == [k \in 1..IdLen |-> "2"]
Id3 == [k \in 1..IdLen |-> "3"]

ExtMd == <<".", "m", "d">>
ExtMarkdown == <<".", "m", "a", "r", "k", "d", "o", "w", "n">>
ExtHtml == <<".", "h", "t", "m", "l">>
ZkLinkStart == <<"[", "[">>
ZkLinkEnd == <<"]", "]">>
IndexName == <<"i", "n", "d", "e", "x">>
AboutName == <<"a", "b", "o", "u", "t">>
AlphaIndexName == <<"a", "l", "p", "h", "a", "b", "e", "t", "i", "c", "a",
                    "l", "-", "i", "n", "d", "e", "x">>
ChronoIndexName == <<"c", "h", "r", "o", "n", "o", "l", "o", "g", "i", "c",
                     "a", "l", "-", "i", "n", "d", "e", "x">>
RootPages == {IndexName, AboutName, AlphaIndexName, ChronoIndexName}
SiteSubfolderName == <<"p", "a", "g", "e", "s">>
\* "[§] ": the section sign is written "$" to keep the module ASCII.
InternalHtmlLinkPrefix == <<"[", "$", "]", " ">>

-----------------------------------------------------------------------------
(* The Zettel note model (src/ssg/zettel.py).                              *)

\* os.path.split(path)[1]: what follows the last "/".
RECURSIVE Basename(_)
Basename(path) ==
    IF \E k \in 1..Len(path) : path[k] = "/"
    THEN Basename(Tail(path))
    ELSE path

\* os.path.dirname(path): what precedes the last "/".
Dirname(path) ==
    LET cut == Len(path) - Len(Basename(path))
    IN IF cut <= 1 THEN SubSeq(path, 1, cut) ELSE SubSeq(path, 1, cut - 1)

\* Index of the "." that os.path.splitext splits a file name at, or 0:
\* the last dot, unless only dots precede it.
SplitExtDot(name) ==
    LET dots == {k \in 1..Len(name) : name[k] = "."}
        last == CHOOSE k \in dots : \A j \in dots : j <= k
    IN IF dots = {} THEN 0
       ELSE IF \A j \in 1..(last - 1) : name[j] = "." THEN 0
       ELSE last

\* os.path.splitext(name)[0]
SplitExtRoot(name) ==
    IF SplitExtDot(name) = 0 THEN name
    ELSE SubSeq(name, 1, SplitExtDot(name) - 1)

\* settings["patterns"]["zk id"] at position p of t: \d{14}.
ZkIdAt(t, p) ==
    /\ p >= 1
    /\ p + IdLen - 1 <= Len(t)
    /\ \A k \in p..(p + IdLen - 1) : t[k] \in Digit

\* settings["patterns"]["zk id"].match(s): the match anchored at the start
\* of s (s need not end there), or None.
ZkIdMatch(s) == IF ZkIdAt(s, 1) THEN SubSeq(s, 1, IdLen) ELSE None

\* get_zk_id_not_in_link_pattern().search(contents): the first ID that is
\* preceded neither by a backslash nor by the link start, or None.
ZkIdNotInLinkSearch(t) ==
    LET ok(p) == /\ ZkIdAt(t, p)
                 /\ ~(p > 1 /\ t[p - 1] = "\\")
                 /\ ~StartsAt(t, p - Len(ZkLinkStart), ZkLinkStart)
        hits == {p \in 1..Len(t) : ok(p)}
        first == CHOOSE p \in hits : \A q \in hits : p <= q
    IN IF hits = {} THEN None ELSE SubSeq(t, first, first + IdLen - 1)

\* Zettel.__get_zettel_id
GetZettelId(file_name, contents) ==
    IF ZkIdMatch(file_name) /= None THEN ZkIdMatch(file_name)
    ELSE ZkIdNotInLinkSearch(contents)

\* settings["patterns"]["h1 content"].search(contents)[0], or None.  The
\* pattern ^# (.+)$ is compiled without re.MULTILINE: ^ is the start of the
\* text, $ its end or the position before a final newline, and . is no
\* newline; the value used is the whole match, "# " included.
H1ContentSearch(t) ==
    LET body == IF Len(t) > 0 /\ t[Len(t)] = "\n"
                THEN SubSeq(t, 1, Len(t) - 1) ELSE t
    IN IF /\ StartsAt(body, 1, <<"#", " ">>)
          /\ Len(body) >= 3
          /\ \A k \in 1..Len(body) : body[k] /= "\n"
       THEN body
       ELSE None

\* A slip that has no title for a file without a header.
GetZettelTitle_NoFallback(file_name_and_ext, contents) ==
    IF file_name_and_ext = IndexName \o ExtMd THEN IndexName
    ELSE IF file_name_and_ext = AboutName \o ExtMd THEN AboutName
    ELSE H1ContentSearch(contents)

\* Zettel.__get_zettel_title
GetZettelTitle(file_name_and_ext, contents) ==
    IF file_name_and_ext = IndexName \o ExtMd THEN IndexName
    ELSE IF file_name_and_ext = AboutName \o ExtMd THEN AboutName
    ELSE IF H1ContentSearch(contents) /= None THEN H1ContentSearch(contents)
    ELSE file_name_and_ext

\* A slip that writes the file name where the ID belongs.
GetZettelLink_ByName(file_name, id, title) ==
    IF id = None THEN ZkLinkStart \o file_name \o ZkLinkEnd
    ELSE ZkLinkStart \o file_name \o ZkLinkEnd \o <<" ">> \o title

\* Zettel.__get_zettel_link
GetZettelLink(file_name, id, title) ==
    IF id = None THEN ZkLinkStart \o file_name \o ZkLinkEnd
    ELSE ZkLinkStart \o id \o ZkLinkEnd \o <<" ">> \o title

\* Zettel.__get_zettel_name_link
GetZettelNameLink(file_name) == ZkLinkStart \o file_name \o ZkLinkEnd

\* The matches of a pattern given by MatchEnd(t, p) as the scan of re
\* finds them from position p on: <<start, end>> pairs from the left, none
\* overlapping an earlier one.
RECURSIVE MatchesFrom(_, _, _)
MatchesFrom(MatchEnd(_, _), t, p) ==
    LET hits == {q \in p..Len(t) : MatchEnd(t, q) /= 0}
        q == CHOOSE q \in hits : \A r \in hits : q <= r
    IN IF hits = {} THEN <<>>
       ELSE <<<<q, MatchEnd(t, q)>>>>
                \o MatchesFrom(MatchEnd, t, MatchEnd(t, q) + 1)

\* re.findall of a pattern without groups.
Findall(MatchEnd(_, _), t) ==
    LET ms == MatchesFrom(MatchEnd, t, 1)
    IN [k \in 1..Len(ms) |-> SubSeq(t, ms[k][1], ms[k][2])]

\* "tag": a "#" that follows white space, then the longest run of tag
\* characters, at least one.
TagEnd(t, p) ==
    IF /\ p > 1 /\ p + 1 <= Len(t)
       /\ t[p - 1] \in WhiteSpace /\ t[p] = "#" /\ t[p + 1] \in TagChar
    THEN LET stops == {q \in (p + 1)..Len(t) : t[q] \notin TagChar}
         IN IF stops = {} THEN Len(t)
            ELSE (CHOOSE q \in stops : \A r \in stops : q <= r) - 1
    ELSE 0

\* Zettel.__get_zettel_tags: the matches of the tag pattern, in order.
GetZettelTags(contents) == Findall(TagEnd, contents)

\* Zettel.__init__: the note of the file at path, holding contents.
Zettel(path, contents) ==
    LET name_ext == Basename(path)
        name == SplitExtRoot(name_ext)
        id == GetZettelId(name, contents)
        title == GetZettelTitle(name_ext, contents)
    IN [path |-> path,
        folder_path |-> Dirname(path),
        file_name_and_ext |-> name_ext,
        file_name |-> name,
        id |-> id,
        title |-> title,
        link |-> GetZettelLink(name, id, title),
        alt_link |-> GetZettelNameLink(name),
        tags |-> GetZettelTags(contents)]

-----------------------------------------------------------------------------
(* The resolver (src/ssg/zettel.py, src/zettel.py).  A result is the index *)
(* of the zettel in the list; 0 is Python's None.                          *)

\* Index of the first zettel of zs that satisfies P, or 0.
FirstIndex(zs, P(_)) ==
    LET hits == {k \in 1..Len(zs) : P(zs[k])}
    IN IF hits = {} THEN 0 ELSE CHOOSE k \in hits : \A j \in hits : k <= j

\* A slip that searches the file names before the IDs.
GetZettelByIdOrFileName_NameFirst(ident, zs) ==
    LET by_id == FirstIndex(zs, LAMBDA z : z.id = ident)
        by_name == FirstIndex(zs, LAMBDA z : z.file_name = ident)
        by_name_ext == FirstIndex(zs, LAMBDA z : z.file_name_and_ext = ident)
    IN IF by_name /= 0 THEN by_name
       ELSE IF by_name_ext /= 0 THEN by_name_ext
       ELSE IF ZkIdMatch(ident) /= None THEN by_id
       ELSE 0

\* A slip that stops after the search by file stem.
GetZettelByIdOrFileName_NoExt(ident, zs) ==
    LET by_id == FirstIndex(zs, LAMBDA z : z.id = ident)
        by_name == FirstIndex(zs, LAMBDA z : z.file_name = ident)
    IN IF ZkIdMatch(ident) /= None /\ by_id /= 0 THEN by_id
       ELSE by_name

\* get_zettel_by_id_or_file_name
GetZettelByIdOrFileName(ident, zs) ==
    LET by_id == FirstIndex(zs, LAMBDA z : z.id = ident)
        by_name == FirstIndex(zs, LAMBDA z : z.file_name = ident)
        by_name_ext == FirstIndex(zs, LAMBDA z : z.file_name_and_ext = ident)
    IN IF ZkIdMatch(ident) /= None /\ by_id /= 0 THEN by_id
       ELSE IF by_name /= 0 THEN by_name
       ELSE by_name_ext

\* get_zettel_by_id (src/zettel.py): None when no zettel has the ID.
GetZettelById(link_id, zs) == FirstIndex(zs, LAMBDA z : z.id = link_id)


-----------------------------------------------------------------------------
(* Idle values of each component's variables, for the specifications that  *)
(* do not exercise that component.                                         *)

ResolveIdle ==
    /\ zettels = <<>>
    /\ identifier = <<>>
    /\ found = [done |-> FALSE, index |-> 0]

RewriteIdle ==
    /\ files = <<>>
    /\ orig = <<>>
    /\ pos = 0
    /\ run = "idle"
    /\ log = <<>>
    /\ links_made = <<>>

ReplaceIdle ==
    /\ rp_pattern = "none"
    /\ rp_file = <<>>
    /\ rp_orig = <<>>
    /\ rp_prev = <<>>
    /\ rp_calls = 0
    /\ rp_total = 0

\* Python None for an index file that is not written.
NotWritten == None

IndexIdle ==
    /\ ix_pc = "idle"
    /\ ix_hide = TRUE
    /\ ix_cat = <<>>
    /\ ix_alpha = NotWritten
    /\ ix_chrono = NotWritten

DiscoverIdle ==
    /\ ds_dir = <<>>
    /\ ds_pc = "idle"
    /\ ds_paths = <<>>
    /\ ds_i = 0
    /\ ds_out = <<>>

AttachIdle ==
    /\ ap_file = <<>>
    /\ ap_orig = <<>>
    /\ ap_exist = {}
    /\ ap_total = 0
    /\ ap_pc = "idle"

CallIdle ==
    /\ cl_disk = <<>>
    /\ cl_default = <<>>
    /\ cl_caller = <<>>
    /\ cl_before = <<>>
    /\ cl_arg = <<>>
    /\ cl_pc = "idle"
    /\ cl_i = 0
    /\ cl_seen = <<>>
    /\ cl_calls = 0
    /\ cl_log = <<>>

SiteIdle ==
    /\ gs_zk = <<>>
    /\ gs_settings = <<>>
    /\ gs_fs = <<>>
    /\ gs_order = <<>>
    /\ gs_pc = "idle"
    /\ gs_i = 0
    /\ gs_events = <<>>
    /\ gs_found = <<>>
    /\ gs_old = <<>>
    /\ gs_new = <<>>

\* The stages that have no part in a behaviour are idle.
StageIdle == DiscoverIdle /\ AttachIdle /\ CallIdle /\ SiteIdle

ReconcileIdle ==
    /\ rc_old = <<>>
    /\ rc_new = <<>>
    /\ rc_ignore = <<>>
    /\ rc_ignored = <<>>
    /\ rc_pc = "idle"
    /\ rc_i = 0
    /\ rc_count = 0
    /\ rc_shown = <<>>
    /\ rc_trashed = {}
    /\ rc_opens = 0
    /\ rc_log = "none"
    /\ rc_event = "none"

-----------------------------------------------------------------------------
(* Resolver specification: get_zettel_by_id_or_file_name applied to lists  *)
(* of notes built by Zettel.__init__ from files of a zettelkasten folder.  *)

NameEm == <<"e", "m">>
NamePh == <<"p", "h">>
Newline == <<"\n">>

\* The files the lists are drawn from: name and contents.
ResolverFiles ==
    { [path |-> Id1 \o ExtMd, contents |-> <<"x">> \o Newline],
      [path |-> NameEm \o ExtMd, contents |-> <<"x">> \o Newline \o Id1],
      [path |-> NameEm \o ExtMarkdown, contents |-> <<"x">> \o Newline],
      [path |-> NamePh \o ExtMd, contents |-> <<"y">> \o Newline \o Id2],
      [path |-> Id1 \o <<"x">> \o ExtMd, contents |-> <<"x">> \o Newline],
      [path |-> NameEm \o ExtMd \o ExtMd, contents |-> <<"z">> \o Newline] }

ResolverIdentifiers ==
    { Id1, Id2, Id3, Id1 \o <<"x">>, NameEm, NameEm \o ExtMd, NamePh \o ExtMd,
      <<"z", "z">> }

\* Lists of distinct files: a folder holds each file name once.
ResolverLists ==
    {fs \in SeqsUpTo(ResolverFiles, MaxZettels) :
        \A a, b \in 1..Len(fs) : a /= b => fs[a] /= fs[b]}

InitResolve ==
    /\ \E fs \in ResolverLists :
          zettels = [k \in 1..Len(fs) |-> Zettel(fs[k].path, fs[k].contents)]
    /\ identifier \in ResolverIdentifiers
    /\ found = [done |-> FALSE, index |-> 0]
    /\ RewriteIdle /\ ReplaceIdle /\ ReconcileIdle /\ IndexIdle /\ StageIdle

\* One call of get_zettel_by_id_or_file_name(identifier, zettels).
Resolve ==
    /\ ~found.done
    /\ found' = [done |-> TRUE,
                 index |-> GetZettelByIdOrFileName(identifier, zettels)]
    /\ UNCHANGED <<zettels, identifier>>
    /\ UNCHANGED <<rewriteVars, replaceVars, reconcileVars, indexVars, stageVars>>

NextResolve == Resolve

SpecResolve == InitResolve /\ [][NextResolve]_vars

\* The cases of the claims about the resolver.
IdMatches == {k \in 1..Len(zettels) : zettels[k].id = identifier}
StemMatches == {k \in 1..Len(zettels) : zettels[k].file_name = identifier}
FullNameMatches ==
    {k \in 1..Len(zettels) : zettels[k].file_name_and_ext = identifier}
LooksLikeId == ZkIdAt(identifier, 1)

\* C3 as stated: with a note N1 whose id is r and a distinct note N2 whose
\* file stem is r, r matching the ID pattern, the resolver returns N1,
\* whatever the order of N1 and N2.
C3_ReturnsN1 ==
    found.done /\ LooksLikeId =>
        \A n1 \in IdMatches : \A n2 \in StemMatches :
            n1 /= n2 => found.index = n1

\* C3 as amended: in that case the resolver returns the first note of the
\* list whose id is r (N1 when no other note has that id), never a note
\* that matches by file stem only.
C3_IdPrecedence ==
    found.done /\ LooksLikeId =>
        \A n1 \in IdMatches : \A n2 \in StemMatches :
            n1 /= n2 =>
                /\ found.index \in IdMatches
                /\ \A k \in IdMatches : found.index <= k
                /\ (IdMatches = {n1} => found.index = n1)

\* C3 witness: the ID search has returned N1, a note whose file stem is not
\* r, although a later note N2 has r as its file stem.
C3_Witness ==
    /\ found.done /\ LooksLikeId
    /\ \E n1 \in IdMatches : \E n2 \in StemMatches :
          /\ n1 < n2
          /\ found.index = n1
          /\ zettels[n1].file_name /= identifier

\* C4: when the reference does not match the ID pattern, or no note has it
\* as id, the result is the first note whose file stem equals it, else the
\* first note whose file name with extension equals it, else None.
C4_FallThrough ==
    found.done /\ (~LooksLikeId \/ IdMatches = {}) =>
        /\ StemMatches /= {} =>
              /\ found.index \in StemMatches
              /\ \A k \in StemMatches : found.index <= k
        /\ StemMatches = {} /\ FullNameMatches /= {} =>
              /\ found.index \in FullNameMatches
              /\ \A k \in FullNameMatches : found.index <= k
        /\ StemMatches = {} /\ FullNameMatches = {} => found.index = 0

\* C4 witness: a reference that matches the ID pattern, is no note's id, and
\* was resolved by the search for its file stem.
C4_Witness ==
    /\ found.done /\ LooksLikeId /\ IdMatches = {}
    /\ found.index \in StemMatches

-----------------------------------------------------------------------------
(* File paths (os.path on a POSIX system).                                 *)

\* path.split("/")
RECURSIVE SplitSlash(_)
SplitSlash(path) ==
    LET cut == FindFrom(path, 1, <<"/">>)
    IN IF cut = 0 THEN <<path>>
       ELSE <<SubSeq(path, 1, cut - 1)>>
                \o SplitSlash(SubSeq(path, cut + 1, Len(path)))

\* "/".join(comps)
RECURSIVE JoinSlash(_)
JoinSlash(comps) ==
    IF comps = <<>> THEN <<>>
    ELSE IF Len(comps) = 1 THEN comps[1]
    ELSE comps[1] \o <<"/">> \o JoinSlash(Tail(comps))

\* The loop of os.path.normpath over the components: "" and "." are
\* dropped and ".." removes the component before it.
RECURSIVE NormComps(_, _, _)
NormComps(comps, new_comps, initial_slashes) ==
    IF comps = <<>> THEN new_comps
    ELSE LET comp == Head(comps)
             keep == \/ comp /= <<".", ".">>
                     \/ (initial_slashes = 0 /\ new_comps = <<>>)
                     \/ (new_comps /= <<>>
                         /\ new_comps[Len(new_comps)] = <<".", ".">>)
         IN IF comp = <<>> \/ comp = <<".">>
            THEN NormComps(Tail(comps), new_comps, initial_slashes)
            ELSE IF keep
            THEN NormComps(Tail(comps), Append(new_comps, comp),
                           initial_slashes)
            ELSE IF new_comps /= <<>>
            THEN NormComps(Tail(comps),
                           SubSeq(new_comps, 1, Len(new_comps) - 1),
                           initial_slashes)
            ELSE NormComps(Tail(comps), new_comps, initial_slashes)

\* A slip that returns the path as it is written.
NormPath_Identity(path) == path

\* os.path.normpath
NormPath(path) ==
    LET initial_slashes ==
            IF ~StartsAt(path, 1, <<"/">>) THEN 0
            ELSE IF StartsAt(path, 1, <<"/", "/">>)
                    /\ ~StartsAt(path, 1, <<"/", "/", "/">>) THEN 2
            ELSE 1
        joined == JoinSlash(NormComps(SplitSlash(path), <<>>, initial_slashes))
        out == [k \in 1..initial_slashes |-> "/"] \o joined
    IN IF path = <<>> \/ out = <<>> THEN <<".">> ELSE out

\* os.path.join(a, b)
PathJoin(a, b) ==
    IF StartsAt(b, 1, <<"/">>) THEN b
    ELSE IF a = <<>> \/ EndsWith(a, <<"/">>) THEN a \o b
    ELSE a \o <<"/">> \o b

ZettelkastenPath == <<"/", "z">>
SitePath == <<"/", "s">>

\* generate_site: site_pages_path
SitePagesPath == PathJoin(SitePath, SiteSubfolderName)

\* copy_zettels_to_site_folder, for one zettel: the zettel with the path of
\* its copy (shutil.copy returns the path of the new file).
CopyZettelToSiteFolder(z) ==
    IF z.file_name \notin RootPages
    THEN [z EXCEPT !.path = PathJoin(SitePagesPath, Basename(z.path))]
    ELSE [z EXCEPT !.path = PathJoin(SitePath, Basename(z.path))]

-----------------------------------------------------------------------------
(* Code spans (settings["patterns"]: "triple codeblock", "single           *)
(* codeblock") and the generic regular-expression drivers.                 *)

\* Index of the last character of the match of a pattern that starts at
\* position p of t, or 0 when the pattern does not match there.
TripleCodeblockEnd(t, p) ==
    \* "triple codeblock": a fence of three backticks that follows a newline,
    \* then the shortest text up to the next such fence.
    LET fence == <<Backtick, Backtick, Backtick>>
        closes == {q \in (p + 3)..Len(t) :
                      StartsAt(t, q, fence) /\ t[q - 1] = "\n"}
    IN IF p > 1 /\ t[p - 1] = "\n" /\ StartsAt(t, p, fence) /\ closes /= {}
       THEN (CHOOSE q \in closes : \A r \in closes : q <= r) + 2
       ELSE 0

SingleCodeblockEnd(t, p) ==
    \* "single codeblock": a backtick, one or more characters that are not
    \* backticks, a backtick.
    LET ticks == {q \in (p + 2)..Len(t) : t[q] = Backtick}
    IN IF /\ p >= 1 /\ p + 2 <= Len(t)
          /\ t[p] = Backtick /\ t[p + 1] /= Backtick /\ ticks /= {}
       THEN CHOOSE q \in ticks : \A r \in ticks : q <= r
       ELSE 0

\* The text t from position p on, with the matches ms replaced: Repl(t, p, e)
\* is the text that replaces the match t[p..e].
RECURSIVE Substitute(_, _, _, _)
Substitute(Repl(_, _, _), t, ms, p) ==
    IF ms = <<>> THEN SubSeq(t, p, Len(t))
    ELSE SubSeq(t, p, ms[1][1] - 1) \o Repl(t, ms[1][1], ms[1][2])
             \o Substitute(Repl, t, Tail(ms), ms[1][2] + 1)

\* re.subn(pattern, repl, t): [text, n].
Subn(MatchEnd(_, _), Repl(_, _, _), t) ==
    LET ms == MatchesFrom(MatchEnd, t, 1)
    IN [text |-> Substitute(Repl, t, ms, 1), n |-> Len(ms)]

\* The text with each match of the pattern replaced by a placeholder.
SubPlaceholder(MatchEnd(_, _), t, placeholder) ==
    Subn(MatchEnd, LAMBDA u, p, e : <<placeholder>>, t).text

\* The placeholder characters of replace_pattern: U+241D (symbol for group
\* separator) stands for a fenced block, U+241E (symbol for record
\* separator) for an inline span.  Each is one character of a text.
TriplePlaceholder == "GS"
SinglePlaceholder == "RS"

\* The fenced code blocks of a text, then its inline code spans, as
\* replace_pattern finds them: the inline spans are searched in the text
\* whose fenced blocks are already replaced (only if there is one).
TripleCodeblocks(t) == Findall(TripleCodeblockEnd, t)
WithoutTriples(t) ==
    IF Len(TripleCodeblocks(t)) > 0
    THEN SubPlaceholder(TripleCodeblockEnd, t, TriplePlaceholder)
    ELSE t
SingleCodeblocks(t) == Findall(SingleCodeblockEnd, WithoutTriples(t))
CodeSpans(t) == <<TripleCodeblocks(t), SingleCodeblocks(t)>>

\* The text outside every code span.
OutsideCode(t) ==
    IF Len(SingleCodeblocks(t)) > 0
    THEN SubPlaceholder(SingleCodeblockEnd, WithoutTriples(t),
                        SinglePlaceholder)
    ELSE WithoutTriples(t)

-----------------------------------------------------------------------------
(* The link rewriter (src/ssg/convert_links.py) and the link formatter     *)
(* (src/ssg/reformat_zettels.py).                                          *)

\* link_id_pattern: the link start, an ID, the link end.
LinkIdEnd(t, p) ==
    IF /\ StartsAt(t, p, ZkLinkStart)
       /\ ZkIdAt(t, p + Len(ZkLinkStart))
       /\ StartsAt(t, p + Len(ZkLinkStart) + IdLen, ZkLinkEnd)
    THEN p + Len(ZkLinkStart) + IdLen + Len(ZkLinkEnd) - 1
    ELSE 0

\* set(link_id_pattern.findall(contents)): findall yields the group, the ID.
LinkIds(contents) ==
    LET ms == Findall(LinkIdEnd, contents)
    IN {SubSeq(ms[k], Len(ZkLinkStart) + 1, Len(ZkLinkStart) + IdLen) :
            k \in 1..Len(ms)}

\* The path create_markdown_link puts in the link from zettel to linked.
MarkdownLinkPath(zettel, linked_zettel) ==
    IF linked_zettel.file_name \notin RootPages
       /\ zettel.file_name \in RootPages
    THEN SiteSubfolderName \o <<"/">> \o linked_zettel.file_name_and_ext
    ELSE linked_zettel.file_name_and_ext

\* md_linker_creator / create_markdown_link
CreateMarkdownLink(zettel, linked_zettel) ==
    <<"[">> \o InternalHtmlLinkPrefix \o linked_zettel.title \o <<"]", "(">>
        \o MarkdownLinkPath(zettel, linked_zettel) \o <<")">>

\* The loop of convert_zettel_links_from_zk_to_md over the IDs in the order
\* ids, from the state st = [contents, log, links, crashed].  An ID that
\* no zettel has makes get_zettel_by_id return None, and reading
\* linked_z.link raises AttributeError.
RECURSIVE ConvertLoop(_, _, _, _)
ConvertLoop(i, zs, ids, st) ==
    IF ids = <<>> \/ st.crashed THEN st
    ELSE LET j == GetZettelById(Head(ids), zs)
             linked_z == zs[j]
             warned == IF ~Contains(st.contents, linked_z.link)
                       THEN Append(st.log, [zettel |-> zs[i].title,
                                            names |-> linked_z.link])
                       ELSE st.log
             markdown_link == CreateMarkdownLink(zs[i], linked_z)
         IN IF j = 0
            THEN [st EXCEPT !.crashed = TRUE]
            ELSE ConvertLoop(i, zs, Tail(ids),
                     [contents |-> StrReplace(st.contents, linked_z.link,
                                              markdown_link),
                      log |-> warned,
                      links |-> Append(st.links,
                                  [from |-> i, to |-> j,
                                   path |-> MarkdownLinkPath(zs[i], linked_z)]),
                      crashed |-> FALSE])

\* The notes of the rewriter specification.  NoteB has an ID in its file
\* name and a one-line body, so its title is that line; NoteC has no ID;
\* NoteR is a root page with an ID in its body; no note has the ID Id4.
Id4 == [k \in 1..IdLen |-> "4"]
ContentsB == <<"#", " ", "N">>
ContentsC == <<"x">> \o Newline
ContentsR == <<"x">> \o Newline \o Id3
PathB == PathJoin(ZettelkastenPath, Id1 \o ExtMd)
PathC == PathJoin(ZettelkastenPath, NameEm \o ExtMd)
PathR == PathJoin(ZettelkastenPath, AboutName \o ExtMd)
NoteB == Zettel(PathB, ContentsB)
NoteC == Zettel(PathC, ContentsC)
NoteR == Zettel(PathR, ContentsR)

\* The paths the note with the generated body is drawn from: a root page
\* and a page of the sub-folder.
SourcePaths ==
    { PathJoin(ZettelkastenPath, IndexName \o ExtMd),
      PathJoin(ZettelkastenPath, NamePh \o ExtMd) }

Fence == <<Backtick, Backtick, Backtick>>

\* The segments a generated body is made of.
Segments ==
    { NoteB.link \o <<" ">>,
      ZkLinkStart \o Id1 \o ZkLinkEnd \o <<" ", "#", " ", "O", " ">>,
      ZkLinkStart \o Id1 \o ZkLinkEnd \o <<".", " ">>,
      NoteR.link \o <<" ">>,
      NoteC.link \o <<" ">>,
      ZkLinkStart \o Id4 \o ZkLinkEnd \o <<" ", "#", " ", "X", " ">>,
      <<Backtick>> \o NoteB.link \o <<Backtick, " ">>,
      Newline \o Fence \o Newline \o NoteB.link \o Newline \o Fence
          \o Newline,
      <<"a", "n", "d", " ">> }

Bodies ==
    {<<"x">> \o Newline \o Concat(segs) : segs \in SeqsUpTo(Segments, MaxSegs)}

InitRewrite ==
    /\ \E src \in SourcePaths : \E body \in Bodies :
          /\ zettels = <<CopyZettelToSiteFolder(Zettel(src, body)),
                         CopyZettelToSiteFolder(NoteB),
                         CopyZettelToSiteFolder(NoteC),
                         CopyZettelToSiteFolder(NoteR)>>
          /\ files = <<body, ContentsB, ContentsC, ContentsR>>
    /\ orig = files
    /\ pos = 0
    /\ run = "running"
    /\ log = <<>>
    /\ links_made = <<>>
    /\ identifier = <<>>
    /\ found = [done |-> FALSE, index |-> 0]
    /\ ReplaceIdle /\ ReconcileIdle /\ IndexIdle /\ StageIdle

\* One round of the loop of convert_links_from_zk_to_md: the call of
\* convert_zettel_links_from_zk_to_md for the next zettel, the IDs of its
\* links visited in any order (a Python set).
ConvertZettel ==
    /\ run = "running"
    /\ pos < Len(zettels)
    /\ LET i == pos + 1
           contents == files[i]
           after == IF i = Len(zettels) THEN "done" ELSE "running"
       IN /\ pos' = i
          /\ IF contents = <<>>
             THEN /\ run' = after
                  /\ UNCHANGED <<files, log, links_made>>
             ELSE \E ids \in Orders(LinkIds(contents)) :
                     LET st == ConvertLoop(i, zettels, ids,
                                   [contents |-> contents, log |-> log,
                                    links |-> links_made, crashed |-> FALSE])
                     IN /\ log' = st.log
                        /\ links_made' = st.links
                        /\ IF st.crashed
                           THEN run' = "crashed" /\ UNCHANGED files
                           ELSE /\ run' = after
                                /\ files' = [files EXCEPT ![i] = st.contents]
    /\ UNCHANGED <<zettels, orig, identifier, found>>
    /\ UNCHANGED <<replaceVars, reconcileVars, indexVars, stageVars>>

NextRewrite == ConvertZettel

SpecRewrite == InitRewrite /\ [][NextRewrite]_vars

\* The cases of the claims about the rewriter.
BrokenIds(i) == {id \in LinkIds(orig[i]) : GetZettelById(id, zettels) = 0}
ValidIds(i) == LinkIds(orig[i]) \ BrokenIds(i)
Warned(i, text) ==
    \E k \in 1..Len(log) :
        log[k].zettel = zettels[i].title /\ Contains(log[k].names, text)
BareLink(content) == ZkLinkStart \o content \o ZkLinkEnd

\* C1: when the rewriter processes a note that references an ID no note
\* has, the run is not aborted, the references of the note that resolve are
\* rewritten and saved, the broken one is left as it is, and a warning
\* names the note and the missing ID.
C1_BrokenLinkNonFatal ==
    \A i \in 1..pos :
        BrokenIds(i) /= {} =>
            /\ run /= "crashed"
            /\ \A id \in ValidIds(i) :
                  ~Contains(files[i], zettels[GetZettelById(id, zettels)].link)
            /\ \A id \in BrokenIds(i) :
                  Contains(files[i], BareLink(id)) /\ Warned(i, id)

\* C2: when a note holds "[[ID]] Old Title" and not the canonical link text
\* "[[ID]] New Title" of the note B with that ID, rewriting it warns with
\* the canonical form and still replaces the occurrence by the markdown
\* link to B.
C2_StaleTitleRewritten ==
    run = "done" =>
        \A i, j \in 1..Len(zettels) :
            /\ zettels[j].id /= None
            /\ Contains(orig[i], BareLink(zettels[j].id) \o <<" ">>)
            /\ ~Contains(orig[i], zettels[j].link)
            => /\ Warned(i, zettels[j].link)
               /\ Contains(files[i], CreateMarkdownLink(zettels[i], zettels[j]))
               /\ ~Contains(files[i], BareLink(zettels[j].id))

\* C5: the fenced code blocks and inline code spans of every note are the
\* same, character for character, before and after the link rewrite.
C5_CodeUntouched ==
    \A i \in 1..Len(files) : CodeSpans(files[i]) = CodeSpans(orig[i])

\* C7: after the rewrite no reference to a note of the list is left outside
\* code, neither in the form "[[id]] title" nor in the bare forms "[[id]]"
\* and "[[file_stem]]", and each distinct reference was resolved once.
C7_AllOccurrencesReplaced ==
    run = "done" =>
        /\ \A i, j \in 1..Len(zettels) :
              LET out == OutsideCode(files[i])
              IN /\ ~Contains(out, zettels[j].link)
                 /\ ~Contains(out, zettels[j].alt_link)
                 /\ zettels[j].id /= None
                        => ~Contains(out, BareLink(zettels[j].id))
        /\ \A a, b \in 1..Len(links_made) :
              a /= b => links_made[a] /= links_made[b]

\* C8: the path of every markdown link the formatter produced, taken
\* relative to the folder of the site the source note was copied to, is the
\* path of the copy of the target note.
C8_LinkTargetsResolve ==
    \A k \in 1..Len(links_made) :
        LET l == links_made[k]
        IN NormPath(PathJoin(Dirname(zettels[l.from].path), l.path))
               = NormPath(zettels[l.to].path)

-----------------------------------------------------------------------------
(* replace_pattern (src/ssg/utils.py), the patterns it is called with      *)
(* (src/ssg/settings.py) and its callers.                                  *)

\* (?i): a letter and its lower-case form match each other.
LowerCase(c) ==
    CASE c = "A" -> "a" [] c = "D" -> "d" [] c = "H" -> "h"
      [] c = "K" -> "k" [] c = "L" -> "l" [] c = "M" -> "m"
      [] c = "N" -> "n" [] c = "O" -> "o" [] c = "R" -> "r"
      [] c = "T" -> "t" [] c = "W" -> "w" [] OTHER -> c

\* t[p..] starts with the lower-case text s, whatever the case of t.
StartsAtNoCase(t, p, s) ==
    /\ p >= 1
    /\ p + Len(s) - 1 <= Len(t)
    /\ \A k \in 1..Len(s) : LowerCase(t[p + k - 1]) = s[k]

\* "md ext in link": ".md" or ".markdown" in any case, after a character
\* that is not white space and before a ")".
MdExtEnd(t, p) ==
    IF p > 1 /\ p <= Len(t) /\ t[p - 1] \notin WhiteSpace
    THEN IF StartsAtNoCase(t, p, <<".", "m", "d">>)
              /\ StartsAt(t, p + 3, <<")">>)
         THEN p + 2
         ELSE IF StartsAtNoCase(t, p, <<".", "m", "a", "r", "k", "d", "o",
                                        "w", "n">>)
                   /\ StartsAt(t, p + 9, <<")">>)
              THEN p + 8
              ELSE 0
    ELSE 0

\* The replacement of the redirect.
ExtHtmlReplacement == <<".", "h", "t", "m", "l">>

\* The end of the line of position p: the position of the next newline, or
\* one past the end of the text.
LineEnd(t, p) ==
    LET nls == {q \in p..Len(t) : t[q] = "\n"}
    IN IF nls = {} THEN Len(t) + 1
       ELSE CHOOSE q \in nls : \A r \in nls : q <= r

\* "md link", \[(.+)]\((.+)\): both groups are greedy and stay on one line.
\* MdLinkSplit is the position of the "](" the match settles on (the last
\* one of the line that a ")" follows after at least one character), 0 if
\* there is no match at p.
MdLinkSplit(t, p) ==
    LET le == LineEnd(t, p)
        js == {j \in (p + 2)..(le - 1) :
                  /\ StartsAt(t, j, <<"]", "(">>)
                  /\ \E k \in (j + 3)..(le - 1) : t[k] = ")"}
    IN IF p <= Len(t) /\ t[p] = "[" /\ js /= {}
       THEN CHOOSE j \in js : \A r \in js : r <= j
       ELSE 0

MdLinkEnd(t, p) ==
    LET j == MdLinkSplit(t, p)
        ks == {k \in (j + 3)..(LineEnd(t, p) - 1) : t[k] = ")"}
    IN IF j = 0 THEN 0 ELSE CHOOSE k \in ks : \A r \in ks : r <= k

\* The expansion of the template <a href="\2">\1</a> for the match t[p..e].
AnchorReplacement(t, p, e) ==
    LET j == MdLinkSplit(t, p)
    IN <<"<", "a", " ", "h", "r", "e", "f", "=", "\"">>
           \o SubSeq(t, j + 2, e - 1) \o <<"\"", ">">>
           \o SubSeq(t, p + 1, j - 1) \o <<"<", "/", "a", ">">>

\* The patterns of the three callers and their replacements.
PatternEnd(pattern, t, p) ==
    CASE pattern = "tag" -> TagEnd(t, p)
      [] pattern = "md ext in link" -> MdExtEnd(t, p)
      [] pattern = "md link" -> MdLinkEnd(t, p)

PatternReplacement(pattern, t, p, e) ==
    CASE pattern = "tag" -> <<>>
      [] pattern = "md ext in link" -> ExtHtmlReplacement
      [] pattern = "md link" -> AnchorReplacement(t, p, e)

\* single_codeblock.replace("\\", r"\\"): the template that re.sub is given
\* for a code span, every backslash doubled.
RECURSIVE EscapeTemplate(_)
EscapeTemplate(cb) ==
    IF cb = <<>> THEN <<>>
    ELSE (IF Head(cb) = "\\" THEN <<"\\", "\\">> ELSE <<Head(cb)>>)
             \o EscapeTemplate(Tail(cb))

\* The text re.sub writes for a template: a doubled backslash is one
\* backslash, a backslash before "n" is a newline, any other character is
\* itself.
RECURSIVE ExpandTemplate(_)
ExpandTemplate(tpl) ==
    IF tpl = <<>> THEN <<>>
    ELSE IF Len(tpl) >= 2 /\ tpl[1] = "\\" /\ tpl[2] = "\\"
         THEN <<"\\">> \o ExpandTemplate(SubSeq(tpl, 3, Len(tpl)))
         ELSE IF Len(tpl) >= 2 /\ tpl[1] = "\\" /\ tpl[2] = "n"
              THEN <<"\n">> \o ExpandTemplate(SubSeq(tpl, 3, Len(tpl)))
              ELSE <<Head(tpl)>> \o ExpandTemplate(Tail(tpl))

\* re.sub(placeholder, template, contents, count=1): the first occurrence of
\* the placeholder replaced.
SubFirst(t, placeholder, tpl) ==
    LET q == FindFrom(t, 1, <<placeholder>>)
    IN IF q = 0 THEN t
       ELSE SubSeq(t, 1, q - 1) \o ExpandTemplate(tpl)
                \o SubSeq(t, q + 1, Len(t))

\* "Put back the code blocks": one re.sub with count=1 for each block, in
\* the order of the list.
RECURSIVE PutBack(_, _, _)
PutBack(t, blocks, placeholder) ==
    IF blocks = <<>> THEN t
    ELSE PutBack(SubFirst(t, placeholder, EscapeTemplate(Head(blocks))),
                 Tail(blocks), placeholder)

\* replace_pattern for one file (file_must_exist False): the code blocks
\* taken out, the pattern replaced, the code blocks put back; the file is
\* written only if something was replaced.
ReplacePattern(pattern, contents) ==
    LET triple_codeblocks == TripleCodeblocks(contents)
        single_codeblocks == SingleCodeblocks(contents)
        r == Subn(LAMBDA t, p : PatternEnd(pattern, t, p),
                  LAMBDA t, p, e : PatternReplacement(pattern, t, p, e),
                  OutsideCode(contents))
        restored == PutBack(PutBack(r.text, single_codeblocks,
                                    SinglePlaceholder),
                            triple_codeblocks, TriplePlaceholder)
    IN [n_replaced |-> r.n,
        file |-> IF r.n > 0 THEN restored ELSE contents]

-----------------------------------------------------------------------------
(* The behaviours of replace_pattern: one file, one of the three callers,  *)
(* called up to MaxCalls times.                                            *)

MaxCalls == 2
\* The segments of a text given to redirect_links_from_md_to_html.
MdExtSegments ==
    { <<"(", "n", ".", "m", "d", ")">>,
      <<"(", "n", ".", "M", "D", ")">>,
      <<" ", ".", "m", "a", "r", "k", "d", "o", "w", "n", ")">>,
      <<"(", "n", ".", "h", "t", "m", "l", ")">>,
      <<Backtick, "(", "c", ".", "m", "d", ")", Backtick>>,
      <<Backtick, "x", SinglePlaceholder, Backtick>>,
      <<"\n", Backtick, Backtick, Backtick, "\n", "(", "c", ".", "m", "d", ")", "\n", Backtick, Backtick, Backtick, "\n">>,
      <<Backtick>> }
\* The segments of a text given to remove_all_tags.
TagSegments ==
    { <<" ", "#", "t">>,
      <<"#", "t">>,
      <<"\n", "#", "a", "-", "b", ".">>,
      <<Backtick, "x", " ", "#", "c", Backtick>>,
      <<"\n", Backtick, Backtick, Backtick, "\n", " ", "#", "c", "\n", Backtick, Backtick, Backtick, "\n">>,
      <<Backtick>> }
\* The segments of a text given to convert_attachment_links.
MdLinkSegments ==
    { <<"[", "a", "]">>,
      <<"(", "b", ")">>,
      <<"[", Backtick, "c", Backtick, "]">>,
      <<"(", Backtick, "d", Backtick, ")">>,
      <<"x", "\n">>,
      <<Backtick, "e", "\\", "n", Backtick>> }
ReplaceSegments(pattern) ==
    CASE pattern = "tag" -> TagSegments
      [] pattern = "md ext in link" -> MdExtSegments
      [] pattern = "md link" -> MdLinkSegments

Patterns == {"tag", "md ext in link", "md link"}

InitReplace ==
    /\ \E pattern \in Patterns :
          \E segs \in SeqsUpTo(ReplaceSegments(pattern), MaxSegs) :
              /\ rp_pattern = pattern
              /\ rp_file = Concat(segs)
    /\ rp_orig = rp_file
    /\ rp_prev = rp_file
    /\ rp_calls = 0
    /\ rp_total = 0
    /\ ResolveIdle /\ RewriteIdle /\ ReconcileIdle /\ IndexIdle /\ StageIdle

\* One call of replace_pattern with the file in file_paths; rp_prev is the
\* file as the call found it, rp_total the number the call returns.
CallReplacePattern(pattern) ==
    /\ rp_pattern = pattern
    /\ rp_calls < MaxCalls
    /\ LET r == ReplacePattern(pattern, rp_file)
       IN /\ rp_file' = r.file
          /\ rp_total' = r.n_replaced
    /\ rp_prev' = rp_file
    /\ rp_calls' = rp_calls + 1
    /\ UNCHANGED <<rp_pattern, rp_orig>>
    /\ UNCHANGED <<resolveVars, rewriteVars, reconcileVars, indexVars, stageVars>>

RemoveAllTags == CallReplacePattern("tag")

RedirectLinksFromMdToHtml == CallReplacePattern("md ext in link")

ConvertAttachmentLinks == CallReplacePattern("md link")

NextReplace ==
    \/ RemoveAllTags
    \/ RedirectLinksFromMdToHtml
    \/ ConvertAttachmentLinks

SpecReplace == InitReplace /\ [][NextReplace]_vars

\* The text replace_pattern would write if every code span had a
\* placeholder of its own: the k-th fenced block and the k-th inline span
\* get the placeholder with the index k, and each span is put back where its
\* placeholder stands after the replacement.
IndexedPlaceholder(placeholder, k) == placeholder \o ToString(k)

RECURSIVE SubstituteIndexed(_, _, _, _, _)
SubstituteIndexed(t, ms, p, placeholder, k) ==
    IF ms = <<>> THEN SubSeq(t, p, Len(t))
    ELSE SubSeq(t, p, ms[1][1] - 1) \o <<IndexedPlaceholder(placeholder, k)>>
             \o SubstituteIndexed(t, Tail(ms), ms[1][2] + 1, placeholder,
                                  k + 1)

RECURSIVE PutBackIndexed(_, _, _, _)
PutBackIndexed(t, blocks, placeholder, k) ==
    IF k > Len(blocks) THEN t
    ELSE PutBackIndexed(
             StrReplace(t, <<IndexedPlaceholder(placeholder, k)>>, blocks[k]),
             blocks, placeholder, k + 1)

CodeRestoredInPlace(pattern, contents) ==
    LET c1 == SubstituteIndexed(contents,
                  MatchesFrom(TripleCodeblockEnd, contents, 1), 1,
                  TriplePlaceholder, 1)
        c2 == SubstituteIndexed(c1, MatchesFrom(SingleCodeblockEnd, c1, 1),
                  1, SinglePlaceholder, 1)
        r == Subn(LAMBDA t, p : PatternEnd(pattern, t, p),
                  LAMBDA t, p, e : PatternReplacement(pattern, t, p, e), c2)
        restored == PutBackIndexed(
                        PutBackIndexed(r.text, SingleCodeblocks(contents),
                                       SinglePlaceholder, 1),
                        TripleCodeblocks(contents), TriplePlaceholder, 1)
    IN IF r.n > 0 THEN restored ELSE contents

\* C6: after a call of replace_pattern the file holds every fenced code
\* block and every inline code span byte for byte, each at the position of
\* its own placeholder, and no placeholder the call put in is left.
C6_CodeRestoredVerbatim ==
    rp_calls >= 1 => rp_file = CodeRestoredInPlace(rp_pattern, rp_prev)

-----------------------------------------------------------------------------
(* The reconciler: regenerate_html_files, delete_old_html_files and        *)
(* show_delete_confirmation_menu (src/ssg/generate_site.py).               *)

\* The file ssg-ignore.txt does not exist.
NoFile == None

HeaderHtml == <<"h", "e", "a", "d", "e", "r", ".", "h", "t", "m", "l">>
FooterHtml == <<"f", "o", "o", "t", "e", "r", ".", "h", "t", "m", "l">>
IgnoreFileName == <<"s", "s", "g", "-", "i", "g", "n", "o", "r", "e", ".", "t", "x", "t">>

\* str.lower
LowerCaseText(t) == [k \in 1..Len(t) |-> LowerCase(t[k])]

\* get_file_paths: the paths of the files of a directory whose lower-case
\* name ends with the extension.
GetFilePaths(dir_path, file_names, extension) ==
    LET names == SelectSeq(file_names,
                     LAMBDA n : EndsWith(LowerCaseText(n), extension))
    IN [k \in 1..Len(names) |-> PathJoin(dir_path, names[k])]

\* Zettel.create_html_path: the extension of the path replaced by ".html".
CreateHtmlPath(path) ==
    Dirname(path)
        \o (IF Dirname(path) = <<>> \/ EndsWith(Dirname(path), <<"/">>)
            THEN <<>> ELSE <<"/">>)
        \o SplitExtRoot(Basename(path)) \o ExtHtml

\* str.split("\n")
RECURSIVE SplitLines(_)
SplitLines(t) ==
    LET cut == FindFrom(t, 1, <<"\n">>)
    IN IF cut = 0 THEN <<t>>
       ELSE <<SubSeq(t, 1, cut - 1)>>
                \o SplitLines(SubSeq(t, cut + 1, Len(t)))

\* ignored_html_paths: the lines of ssg-ignore.txt, each normalised; the
\* empty list if the file does not exist.
IgnoredHtmlPaths(ignore_file) ==
    IF ignore_file = NoFile THEN <<>>
    ELSE LET lines == SplitLines(ignore_file)
         IN [k \in 1..Len(lines) |-> NormPath(lines[k])]

InSeq(x, s) == \E k \in 1..Len(s) : s[k] = x

\* A slip that forgets the ignore list.
IsOldFile_NoIgnoreList(old_path, new_html_paths, ignored_html_paths) ==
    /\ ~InSeq(old_path, new_html_paths)
    /\ ~EndsWith(old_path, FooterHtml)
    /\ ~EndsWith(old_path, HeaderHtml)

\* The two conditions of the loop of delete_old_html_files on the normalised
\* old path: true if a confirmation dialog is shown for it.
IsOldFile(old_path, new_html_paths, ignored_html_paths) ==
    /\ ~InSeq(old_path, new_html_paths)
    /\ ~EndsWith(old_path, FooterHtml)
    /\ ~EndsWith(old_path, HeaderHtml)
    /\ ~InSeq(old_path, ignored_html_paths)

\* The ways the site folder path is written in the settings.
SitePathForms == { SitePath, <<"/", "t", "/", ".", ".", "/", "s">> }

\* The names of the files of the site folder and of its pages folder before
\* the run, and the copied zettels of the run.
RootFileNames == << <<"a", ".", "h", "t", "m", "l">>,
                   HeaderHtml,
                   <<"s", "u", "b">> \o HeaderHtml >>
PagesFileNames == << <<"b", ".", "h", "t", "m", "l">>,
                    <<"c", ".", "H", "T", "M", "L">>,
                    FooterHtml >>
RootZettelNames == { <<"a", ".", "m", "d">> }
PagesZettelNames == { <<"b", ".", "m", "a", "r", "k", "d", "o", "w", "n">> }

\* The contents ssg-ignore.txt may have.
IgnoreFiles ==
    { NoFile,
      <<>>,
      <<"/", "s", "/", "p", "a", "g", "e", "s", "/", "b", ".", "h", "t", "m", "l">>,
      <<"/", "s", "/", "p", "a", "g", "e", "s", "/", "b", ".", "h", "t", "m", "l", "\n", "/", "s", "/", "a", ".", "h", "t", "m", "l", "\n">>,
      <<"/", "s", "/", "p", "a", "g", "e", "s", "/", ".", ".", "/", "p", "a", "g", "e", "s", "/", "c", ".", "H", "T", "M", "L", "\n", "/", "s", "/", "h", "e", "a", "d", "e", "r", ".", "h", "t", "m", "l">>,
      <<"/", "s", "/", "p", "a", "g", "e", "s", "/", "x", ".", "h", "t", "m", "l">> }

Subseq(s, S) == SelectSeq(s, LAMBDA x : x \in S)
Range(s) == {s[k] : k \in 1..Len(s)}
SetToSeq(S) == CHOOSE s \in [1..Cardinality(S) -> S] : Range(s) = S

\* The state at the call of regenerate_html_files: old_html_paths is read
\* from the two folders, the new HTML files are those of the copied zettels.
InitReconcile ==
    /\ \E sp \in SitePathForms :
       \E roots \in SUBSET Range(RootFileNames) :
       \E pages \in SUBSET Range(PagesFileNames) :
       \E zr \in SUBSET RootZettelNames :
       \E zp \in SUBSET PagesZettelNames :
       \E ignore_file \in IgnoreFiles :
          LET site_pages_path == PathJoin(sp, SiteSubfolderName)
              listing == IF ignore_file = NoFile THEN <<>>
                         ELSE <<IgnoreFileName>>
          IN /\ rc_old =
                    GetFilePaths(sp, Subseq(RootFileNames, roots), ExtHtml)
                    \o GetFilePaths(site_pages_path,
                           listing \o Subseq(PagesFileNames, pages), ExtHtml)
             /\ rc_new =
                    SetToSeq({CreateHtmlPath(PathJoin(sp, n)) : n \in zr}
                       \cup {CreateHtmlPath(PathJoin(site_pages_path, n)) :
                                n \in zp})
             /\ rc_ignore = ignore_file
    /\ rc_ignored = <<>>
    /\ rc_pc = "start"
    /\ rc_i = 0
    /\ rc_count = 0
    /\ rc_shown = <<>>
    /\ rc_trashed = {}
    /\ rc_opens = 0
    /\ rc_log = "none"
    /\ rc_event = "none"
    /\ ResolveIdle /\ RewriteIdle /\ ReplaceIdle /\ IndexIdle /\ StageIdle

\* regenerate_html_files normalises the new paths and calls
\* delete_old_html_files, which reads and normalises the ignore list.
ReadIgnoreList ==
    /\ rc_pc = "start"
    /\ rc_new' = [k \in 1..Len(rc_new) |-> NormPath(rc_new[k])]
    /\ rc_ignored' = IgnoredHtmlPaths(rc_ignore)
    /\ rc_pc' = "scan"
    /\ UNCHANGED <<rc_old, rc_ignore, rc_i, rc_count, rc_shown, rc_trashed,
                   rc_opens, rc_log, rc_event>>
    /\ UNCHANGED <<resolveVars, rewriteVars, replaceVars, indexVars, stageVars>>

\* One round of the loop over old_html_paths, up to the window of
\* show_delete_confirmation_menu if the path is an old file.
ExamineOldPath ==
    /\ rc_pc = "scan"
    /\ rc_i < Len(rc_old)
    /\ rc_i' = rc_i + 1
    /\ LET old_path == NormPath(rc_old[rc_i + 1])
       IN IF IsOldFile(old_path, rc_new, rc_ignored)
          THEN /\ rc_count' = rc_count + 1
               /\ rc_shown' = Append(rc_shown, old_path)
               /\ rc_opens' = 0
               /\ rc_pc' = "dialog"
          ELSE UNCHANGED <<rc_count, rc_shown, rc_opens, rc_pc>>
    /\ UNCHANGED <<rc_old, rc_new, rc_ignore, rc_ignored, rc_trashed, rc_log,
                   rc_event>>
    /\ UNCHANGED <<resolveVars, rewriteVars, replaceVars, indexVars, stageVars>>

\* The event "Open": the file is opened in the browser, the window stays.
DialogOpen ==
    /\ rc_pc = "dialog"
    /\ rc_opens < MaxOpens
    /\ rc_opens' = rc_opens + 1
    /\ rc_event' = "Open"
    /\ UNCHANGED <<rc_old, rc_new, rc_ignore, rc_ignored, rc_pc, rc_i,
                   rc_count, rc_shown, rc_trashed, rc_log>>
    /\ UNCHANGED <<resolveVars, rewriteVars, replaceVars, indexVars, stageVars>>

\* The event "Delete": the path of the window is sent to the trash.
DialogDelete ==
    /\ rc_pc = "dialog"
    /\ rc_trashed' = rc_trashed \cup {rc_shown[Len(rc_shown)]}
    /\ rc_event' = "Delete"
    /\ rc_pc' = "scan"
    /\ UNCHANGED <<rc_old, rc_new, rc_ignore, rc_ignored, rc_i, rc_count,
                   rc_shown, rc_opens, rc_log>>
    /\ UNCHANGED <<resolveVars, rewriteVars, replaceVars, indexVars, stageVars>>

\* A slip that sends the file to the trash on "Cancel" too.
DialogCancel_Trashes ==
    /\ rc_pc = "dialog"
    /\ rc_event' = "Cancel"
    /\ rc_trashed' = rc_trashed \cup {rc_shown[Len(rc_shown)]}
    /\ rc_pc' = "scan"
    /\ UNCHANGED <<rc_old, rc_new, rc_ignore, rc_ignored, rc_i, rc_count,
                   rc_shown, rc_opens, rc_log>>
    /\ UNCHANGED <<resolveVars, rewriteVars, replaceVars, indexVars, stageVars>>

\* Any other event ("Cancel"): the file is kept.
DialogCancel ==
    /\ rc_pc = "dialog"
    /\ rc_event' = "Cancel"
    /\ rc_pc' = "scan"
    /\ UNCHANGED <<rc_old, rc_new, rc_ignore, rc_ignored, rc_i, rc_count,
                   rc_shown, rc_trashed, rc_opens, rc_log>>
    /\ UNCHANGED <<resolveVars, rewriteVars, replaceVars, indexVars, stageVars>>

\* The end of the loop: the log line.
FinishDeleteOldHtmlFiles ==
    /\ rc_pc = "scan"
    /\ rc_i = Len(rc_old)
    /\ rc_log' = IF rc_count = 0 THEN "No old HTML files found."
                 ELSE "Deleted old_count files."
    /\ rc_pc' = "done"
    /\ UNCHANGED <<rc_old, rc_new, rc_ignore, rc_ignored, rc_i, rc_count,
                   rc_shown, rc_trashed, rc_opens, rc_event>>
    /\ UNCHANGED <<resolveVars, rewriteVars, replaceVars, indexVars, stageVars>>

NextReconcile ==
    \/ ReadIgnoreList
    \/ ExamineOldPath
    \/ DialogOpen
    \/ DialogDelete
    \/ DialogCancel
    \/ FinishDeleteOldHtmlFiles

SpecReconcile == InitReconcile /\ [][NextReconcile]_vars

\* A path is generated in this run, is listed in ssg-ignore.txt, is a
\* template.
GeneratedInRun(path) ==
    LET norm == NormPath(path)
    IN \E k \in 1..Len(rc_new) : NormPath(rc_new[k]) = norm
ListedInIgnoreFile(path) ==
    /\ rc_ignore /= NoFile
    /\ LET lines == SplitLines(rc_ignore)
           norm == NormPath(path)
       IN \E k \in 1..Len(lines) : NormPath(lines[k]) = norm
IsTemplate(path) == Basename(NormPath(path)) \in {HeaderHtml, FooterHtml}

\* C10: no confirmation dialog is shown for, and nothing is sent to the
\* trash but, a pre-existing HTML path that is not generated in this run,
\* not listed in ssg-ignore.txt and neither header.html nor footer.html.
C10_ProtectedNeverPresented ==
    /\ \A k \in 1..Len(rc_shown) :
          /\ \E i \in 1..rc_i : NormPath(rc_old[i]) = rc_shown[k]
          /\ ~GeneratedInRun(rc_shown[k])
          /\ ~ListedInIgnoreFile(rc_shown[k])
          /\ ~IsTemplate(rc_shown[k])
    /\ rc_trashed \subseteq Range(rc_shown)

\* A finished run whose old paths held a generated file, a listed file and
\* a template, and that sent another file to the trash.
C10_Witness ==
    /\ rc_pc = "done"
    /\ rc_trashed /= {}
    /\ \E i \in 1..Len(rc_old) : GeneratedInRun(rc_old[i])
    /\ \E i \in 1..Len(rc_old) :
          /\ ListedInIgnoreFile(rc_old[i])
          /\ ~GeneratedInRun(rc_old[i])
          /\ ~IsTemplate(rc_old[i])
    /\ \E i \in 1..Len(rc_old) : IsTemplate(rc_old[i])

\* A pre-existing path that is neither generated in this run, nor listed in
\* ssg-ignore.txt, nor a template.
IsStale(path) ==
    ~GeneratedInRun(path) /\ ~ListedInIgnoreFile(path) /\ ~IsTemplate(path)

\* C11: when the reconciliation has ended, every stale pre-existing path
\* has been presented in a confirmation dialog exactly once, whatever was
\* decided for the paths before it.
C11_EveryStalePresentedOnce ==
    rc_pc = "done" =>
        \A i \in 1..Len(rc_old) :
            IsStale(rc_old[i]) =>
                Cardinality({k \in 1..Len(rc_shown) :
                                rc_shown[k] = NormPath(rc_old[i])}) = 1

\* C12: the set of files sent to the trash grows only by the step in which
\* "Delete" is chosen in the dialog, and only by the file of that dialog;
\* "Open" leaves the file in place and the dialog open; any other choice
\* ends the dialog and leaves the file in place.
C12_OnlyDeleteTrashes ==
    [][ /\ (rc_trashed' /= rc_trashed =>
              /\ rc_pc = "dialog"
              /\ rc_event' = "Delete"
              /\ rc_trashed' = rc_trashed \cup {rc_shown[Len(rc_shown)]})
        /\ (rc_pc = "dialog" /\ rc_event' = "Open" =>
              /\ rc_pc' = "dialog"
              /\ rc_shown' = rc_shown
              /\ rc_trashed' = rc_trashed)
        /\ (rc_pc = "dialog" /\ rc_event' \notin {"Open", "Delete"} =>
              /\ rc_pc' /= "dialog"
              /\ rc_trashed' = rc_trashed) ]_vars

\* The first file presented was kept, a later one was opened and then sent
\* to the trash.
C12_Witness ==
    /\ rc_event = "Delete"
    /\ rc_opens >= 1
    /\ Len(rc_shown) >= 2
    /\ rc_shown[1] \notin rc_trashed
    /\ rc_shown[Len(rc_shown)] \in rc_trashed

\* C24: when the reconciliation has ended, the count old_count reported in
\* the log line "Deleted old_count files." equals the number of stale files
\* sent to the trash, and "No old HTML files found." is logged exactly when
\* no stale candidate was found.
C24_LoggedCountIsTrashed ==
    rc_pc = "done" =>
        /\ (rc_log = "No old HTML files found.") <=> (rc_shown = <<>>)
        /\ (rc_log = "Deleted old_count files.") =>
               rc_count = Cardinality(rc_trashed)

-----------------------------------------------------------------------------
(* The index generators (src/ssg/indexes.py).                              *)

PublishedTag == <<"#", "p", "u", "b", "l", "i", "s", "h", "e", "d">>
OtherTag == <<"#", "o", "t", "h", "e", "r">>
CategoricalIndexFileName == <<"c", "a", "t", "e", "g", "o", "r", "i", "c", "a", "l", "-", "i", "n", "d", "e", "x", ".", "m", "d">>
AlphabeticalIndexFileName == AlphaIndexName \o ExtMd
ChronologicalIndexFileName == IndexName \o ExtMd
Bullet == <<"*", " ">>
AlphabeticalIndexHeader == <<"#", "#", " ", "a", "l", "p", "h", "a", "b", "e", "t", "i", "c", "a", "l", " ", "i", "n", "d", "e", "x", "\n", "\n">>
UndatedPagesHeader == <<"\n", "\n", "#", "#", "#", " ", "u", "n", "d", "a", "t", "e", "d", " ", "p", "a", "g", "e", "s", "\n", "\n">>
DatesNotice ==
    <<"_", "D", "a", "t", "e", "s", " ", "s", "h", "o", "w", "n", " ", "h", "e", "r", "e", " ", "a", "r", "e", " ", "t", "h", "e", " ", "o", "r", "i", "g", "i", "n", "a", "l", " ", "f", "i", "l", "e", " ", "c", "r", "e", "a", "t", "i", "o", "n", " ", "d", "a", "t", "e", "s", ",", " ">>
    \o <<"n", "o", "t", " ", "n", "e", "c", "e", "s", "s", "a", "r", "i", "l", "y", " ", "l", "a", "t", "e", "s", "t", " ", "e", "d", "i", "t", " ", "o", "r", " ", "p", "o", "s", "t", " ", "d", "a", "t", "e", "s", ".", "_", "\n", "\n">>

\* The characters of the model in the order of their code points, which is
\* the order Python compares strings by.
CharOrder ==
    << "\n", " ", "#", "*", "-", ".", "/", "0", "1", "2", "3", "4", "5",
       "6", "7", "8", "9", "A", "D", "H", "K", "L", "M", "N", "O", "R",
       "T", "W", "[", "]", "_", "a", "b", "c", "d", "e", "f", "g", "h",
       "i", "j", "k", "l", "m", "n", "o", "p", "q", "r", "s", "t", "u",
       "v", "w", "x", "y", "z" >>

Ord(c) == CHOOSE k \in 1..Len(CharOrder) : CharOrder[k] = c

\* a < b for Python strings.
StrLess(a, b) ==
    \E k \in 1..(Min(Len(a), Len(b)) + 1) :
        /\ \A j \in 1..(k - 1) : a[j] = b[j]
        /\ \/ k > Len(a) /\ k <= Len(b)
           \/ k <= Len(a) /\ k <= Len(b) /\ Ord(a[k]) < Ord(b[k])

\* sorted(..., key=..., reverse=...) as the order of the indexes of keys: an
\* index is put before the first one that has to follow it, so that equal
\* keys keep their order, with reverse too.
RECURSIVE InsertByKey(_, _, _, _)
InsertByKey(sorted, x, keys, reverse) ==
    IF sorted = <<>> THEN <<x>>
    ELSE IF (IF reverse THEN StrLess(keys[Head(sorted)], keys[x])
             ELSE StrLess(keys[x], keys[Head(sorted)]))
         THEN <<x>> \o sorted
         ELSE <<Head(sorted)>> \o InsertByKey(Tail(sorted), x, keys, reverse)

RECURSIVE SortedFrom(_, _, _, _)
SortedFrom(sorted, xs, keys, reverse) ==
    IF xs = <<>> THEN sorted
    ELSE SortedFrom(InsertByKey(sorted, Head(xs), keys, reverse), Tail(xs),
                    keys, reverse)

\* A slip that sorts without regard to reverse.
SortedIndexes_Ascending(xs, keys, reverse) ==
    SortedFrom(<<>>, xs, keys, FALSE)

\* The indexes xs sorted by their keys.
SortedIndexes(xs, keys, reverse) == SortedFrom(<<>>, xs, keys, reverse)

\* "\n".join(lines)
RECURSIVE JoinLines(_)
JoinLines(lines) ==
    IF lines = <<>> THEN <<>>
    ELSE IF Len(lines) = 1 THEN lines[1]
    ELSE lines[1] \o <<"\n">> \o JoinLines(Tail(lines))

\* zettel.file_name not in settings["root pages"]
IsNotRootPage(z) == z.file_name \notin RootPages

\* The indexes of the zettels of zs that are not root pages, in order.
NonRootZettels(zs) ==
    SelectSeq([k \in 1..Len(zs) |-> k], LAMBDA k : IsNotRootPage(zs[k]))

\* A slip that compares the titles as they are written.
CreateAlphabeticalIndex_CaseSensitive(zs) ==
    LET keys == [k \in 1..Len(zs) |-> zs[k].title]
        sorted_zettels ==
            SortedIndexes([k \in 1..Len(zs) |-> k], keys, FALSE)
        listed == SelectSeq(sorted_zettels, LAMBDA k : IsNotRootPage(zs[k]))
        numeric_links == [p \in 1..Len(listed) |-> Bullet \o zs[listed[p]].link]
    IN AlphabeticalIndexHeader \o JoinLines(numeric_links)

\* create_alphabetical_index
CreateAlphabeticalIndex(zs) ==
    LET keys == [k \in 1..Len(zs) |-> LowerCaseText(zs[k].title)]
        sorted_zettels ==
            SortedIndexes([k \in 1..Len(zs) |-> k], keys, FALSE)
        listed == SelectSeq(sorted_zettels, LAMBDA k : IsNotRootPage(zs[k]))
        numeric_links == [p \in 1..Len(listed) |-> Bullet \o zs[listed[p]].link]
    IN AlphabeticalIndexHeader \o JoinLines(numeric_links)

\* The date of an ID as the chronological index shows it.
IdDate(id) ==
    SubSeq(id, 1, 4) \o <<"/">> \o SubSeq(id, 5, 6) \o <<"/">>
        \o SubSeq(id, 7, 8)

\* create_chronological_index
CreateChronologicalIndex(zs, hide_chrono_index_dates) ==
    LET non_root_zettels == NonRootZettels(zs)
        with_ids == SelectSeq(non_root_zettels, LAMBDA k : zs[k].id /= None)
        keys == [k \in 1..Len(zs) |-> zs[k].id]
        zettels_with_ids == SortedIndexes(with_ids, keys, TRUE)
        z_with_id_links ==
            [p \in 1..Len(zettels_with_ids) |->
                LET z == zs[zettels_with_ids[p]]
                IN IF hide_chrono_index_dates THEN Bullet \o z.link
                   ELSE Bullet \o IdDate(z.id) \o <<" ">> \o z.link]
        zettels_without_ids ==
            SelectSeq(non_root_zettels, LAMBDA k : zs[k].id = None)
        z_without_id_links ==
            [p \in 1..Len(zettels_without_ids) |->
                Bullet \o zs[zettels_without_ids[p]].link]
    IN (IF hide_chrono_index_dates THEN <<>> ELSE DatesNotice)
           \o JoinLines(z_with_id_links)
           \o (IF z_without_id_links /= <<>>
               THEN UndatedPagesHeader \o JoinLines(z_without_id_links)
               ELSE <<>>)

\* A dict as the sequence of its items in insertion order.
DictHas(d, key) == \E k \in 1..Len(d) : d[k].key = key
DictGet(d, key) == d[CHOOSE k \in 1..Len(d) : d[k].key = key].value
DictSet(d, key, value) ==
    IF DictHas(d, key)
    THEN [k \in 1..Len(d) |->
             IF d[k].key = key THEN [key |-> key, value |-> value] ELSE d[k]]
    ELSE Append(d, [key |-> key, value |-> value])

\* list.remove(x): the list without the first x (x is in the list).
RemoveFirst(s, x) ==
    LET q == CHOOSE k \in 1..Len(s) : s[k] = x /\ \A j \in 1..(k - 1) : s[j] /= x
    IN SubSeq(s, 1, q - 1) \o SubSeq(s, q + 1, Len(s))

\* The inner loop of create_categorical_indexes for one index tag, from the
\* zettel k on.  unlinked_zettels.remove raises ValueError if the zettel is
\* no longer in the list.
RECURSIVE CategorizeZettels(_, _, _, _)
CategorizeZettels(zs, index_tag, k, st) ==
    IF k > Len(zs) \/ st.crashed THEN st
    ELSE IF IsNotRootPage(zs[k]) /\ InSeq(index_tag, zs[k].tags)
         THEN IF ~InSeq(k, st.unlinked)
              THEN [st EXCEPT !.crashed = TRUE]
              ELSE CategorizeZettels(zs, index_tag, k + 1,
                       [st EXCEPT
                           !.categories =
                               DictSet(@, index_tag,
                                   Append(DictGet(@, index_tag),
                                          Bullet \o zs[k].link)),
                           !.unlinked = RemoveFirst(@, k)])
         ELSE CategorizeZettels(zs, index_tag, k + 1, st)

\* The outer loop, from the index tag t on.
RECURSIVE CategorizeTags(_, _, _, _)
CategorizeTags(zs, index_tags, t, st) ==
    IF t > Len(index_tags) \/ st.crashed THEN st
    ELSE CategorizeTags(zs, index_tags, t + 1,
             CategorizeZettels(zs, index_tags[t], 1,
                 [st EXCEPT !.categories = DictSet(@, index_tags[t], <<>>)]))

\* create_categorical_indexes: the dict of the link lists, or the crash.
CreateCategoricalIndexes(zs, index_tags) ==
    LET st == CategorizeTags(zs, index_tags, 1,
                  [categories |-> <<>>,
                   unlinked |-> [k \in 1..Len(zs) |-> k],
                   crashed |-> FALSE])
        others == SelectSeq(st.unlinked, LAMBDA k : IsNotRootPage(zs[k]))
        other_links == [p \in 1..Len(others) |-> Bullet \o zs[others[p]].link]
        cats == IF others = <<>> THEN st.categories
                ELSE DictSet(st.categories, OtherTag,
                         (IF DictHas(st.categories, OtherTag)
                          THEN DictGet(st.categories, OtherTag) ELSE <<>>)
                             \o other_links)
    IN [crashed |-> st.crashed,
        categories |-> [k \in 1..Len(cats) |->
                           [key |-> cats[k].key,
                            value |-> JoinLines(cats[k].value)]]]

\* str.replace(old, new, 1)
StrReplaceFirst(t, old, new) ==
    LET q == FindFrom(t, 1, old)
    IN IF q = 0 \/ q > Len(t) THEN t
       ELSE SubSeq(t, 1, q - 1) \o new \o SubSeq(t, q + Len(old), Len(t))

\* for tag, links in categories.items(): the replacements from item k on.
RECURSIVE ReplaceCategories(_, _, _)
ReplaceCategories(index_contents, categories, k) ==
    IF k > Len(categories) THEN index_contents
    ELSE ReplaceCategories(
             StrReplaceFirst(index_contents, categories[k].key,
                             categories[k].value),
             categories, k + 1)

\* The zettel edit_categorical_index_file takes for the index: the last one
\* named categorical-index.md, 0 (None) if there is none.
CategoricalIndexZettel(zs) ==
    LET hits == {k \in 1..Len(zs) :
                    zs[k].file_name_and_ext = CategoricalIndexFileName}
    IN IF hits = {} THEN 0 ELSE CHOOSE k \in hits : \A j \in hits : j <= k

\* A slip that does not look for the publish marker.
EditCategoricalIndex_Unchecked(zs, index_contents) ==
    LET index_tags == Findall(TagEnd, index_contents)
        declared == SelectSeq(index_tags, LAMBDA t : t /= PublishedTag)
        r == CreateCategoricalIndexes(zs, declared)
    IN IF CategoricalIndexZettel(zs) = 0 THEN [outcome |-> "exit"]
       ELSE IF r.crashed THEN [outcome |-> "crashed"]
       ELSE [outcome |-> "written",
             contents |-> ReplaceCategories(index_contents, r.categories, 1)]

\* edit_categorical_index_file, given the text of the index file: how it
\* ends ("exit" for sys.exit(1), "crashed" for the ValueError, "written")
\* and the text it writes.
EditCategoricalIndex(zs, index_contents) ==
    LET index_tags == Findall(TagEnd, index_contents)
        declared == RemoveFirst(index_tags, PublishedTag)
        r == CreateCategoricalIndexes(zs, declared)
    IN IF CategoricalIndexZettel(zs) = 0 THEN [outcome |-> "exit"]
       ELSE IF ~InSeq(PublishedTag, index_tags) THEN [outcome |-> "exit"]
       ELSE IF r.crashed THEN [outcome |-> "crashed"]
       ELSE [outcome |-> "written",
             contents |-> ReplaceCategories(index_contents, r.categories, 1)]

-----------------------------------------------------------------------------
(* The behaviours of create_md_index_files (src/ssg/generate_site.py) on   *)
(* the zettels copied to the site folder.                                  *)

\* The published notes of the zettelkasten other than the categorical index:
\* two with an ID in the file name, two without an ID whose titles differ
\* in case only, and a root page.
IndexNoteFiles ==
    { [path |-> PathJoin(ZettelkastenPath, <<"2", "0", "2", "0", "0", "1", "0", "1", "0", "0", "0", "0", "0", "0", ".", "m", "d">>),
       contents |-> <<"#", " ", "D", " ", "#", "p", "u", "b", "l", "i", "s", "h", "e", "d", " ", "#", "a">>],
      [path |-> PathJoin(ZettelkastenPath, <<"2", "0", "2", "1", "0", "1", "0", "1", "0", "0", "0", "0", "0", "0", ".", "m", "d">>),
       contents |-> <<"#", " ", "a", " ", "#", "p", "u", "b", "l", "i", "s", "h", "e", "d", " ", "#", "a", " ", "#", "b">>],
      [path |-> PathJoin(ZettelkastenPath, <<"n", ".", "m", "d">>),
       contents |-> <<"#", " ", "A", " ", "#", "p", "u", "b", "l", "i", "s", "h", "e", "d", "\n">>],
      [path |-> PathJoin(ZettelkastenPath, <<"m", ".", "m", "d">>),
       contents |-> <<"#", " ", "a", " ", "#", "p", "u", "b", "l", "i", "s", "h", "e", "d", "\n">>],
      [path |-> PathJoin(ZettelkastenPath, AboutName \o ExtMd),
       contents |-> <<"x", "\n", " ", "#", "p", "u", "b", "l", "i", "s", "h", "e", "d", " ", "\n">>] }

\* The texts categorical-index.md may have: two declared tags, one, none,
\* the tag "#other" only, and one without the publish marker (a list that
\* get_zettels_to_publish does not give, but that
\* edit_categorical_index_file checks for).
CategoricalIndexTexts ==
    { <<"x", " ", "#", "p", "u", "b", "l", "i", "s", "h", "e", "d", "\n", "#", "a", "\n", "#", "b", "\n">>,
      <<"x", " ", "#", "p", "u", "b", "l", "i", "s", "h", "e", "d", "\n", "#", "a", "\n">>,
      <<"x", " ", "#", "p", "u", "b", "l", "i", "s", "h", "e", "d", "\n">>,
      <<"x", " ", "#", "p", "u", "b", "l", "i", "s", "h", "e", "d", "\n", "#", "o", "t", "h", "e", "r", "\n">>,
      <<"x", "\n", "#", "a", "\n">> }

\* The lists get_zettels_to_publish may give: the notes in any order, with
\* the categorical index first, last or missing.
IndexLists ==
    LET notes == UNION {Orders(S) : S \in SUBSET IndexNoteFiles}
        cats == {[path |-> PathJoin(ZettelkastenPath,
                                    CategoricalIndexFileName),
                  contents |-> c] : c \in CategoricalIndexTexts}
    IN notes \cup {<<c>> \o fs : c \in cats, fs \in notes}
             \cup {fs \o <<c>> : c \in cats, fs \in notes}

InitIndex ==
    /\ \E fs \in IndexLists :
          /\ zettels = [k \in 1..Len(fs) |->
                           CopyZettelToSiteFolder(
                               Zettel(fs[k].path, fs[k].contents))]
          /\ ix_cat = IF \E k \in 1..Len(fs) :
                             Basename(fs[k].path) = CategoricalIndexFileName
                      THEN fs[CHOOSE k \in 1..Len(fs) :
                                 Basename(fs[k].path)
                                     = CategoricalIndexFileName].contents
                      ELSE NoFile
    /\ ix_hide \in BOOLEAN
    /\ ix_pc = "categorical"
    /\ ix_alpha = NotWritten
    /\ ix_chrono = NotWritten
    /\ identifier = <<>>
    /\ found = [done |-> FALSE, index |-> 0]
    /\ RewriteIdle /\ ReplaceIdle /\ ReconcileIdle /\ StageIdle

\* edit_categorical_index_file(zettels)
EditCategoricalIndexFile ==
    /\ ix_pc = "categorical"
    /\ LET r == EditCategoricalIndex(zettels, ix_cat)
       IN IF r.outcome = "written"
          THEN ix_cat' = r.contents /\ ix_pc' = "alphabetical"
          ELSE ix_pc' = r.outcome /\ UNCHANGED ix_cat
    /\ UNCHANGED <<zettels, ix_hide, ix_alpha, ix_chrono>>
    /\ UNCHANGED <<identifier, found>>
    /\ UNCHANGED <<rewriteVars, replaceVars, reconcileVars, stageVars>>

\* create_alphabetical_index_file(zettels, site_path)
CreateAlphabeticalIndexFile ==
    /\ ix_pc = "alphabetical"
    /\ LET index == CreateAlphabeticalIndex(zettels)
           index_file_path == PathJoin(SitePath, AlphabeticalIndexFileName)
       IN /\ ix_alpha' = index
          /\ zettels' = Append(zettels, Zettel(index_file_path, index))
    /\ ix_pc' = "chronological"
    /\ UNCHANGED <<ix_hide, ix_cat, ix_chrono>>
    /\ UNCHANGED <<identifier, found>>
    /\ UNCHANGED <<rewriteVars, replaceVars, reconcileVars, stageVars>>

\* create_chronological_index_file(zettels, site_path,
\* hide_chrono_index_dates): the index is written to index.md.
CreateChronologicalIndexFile ==
    /\ ix_pc = "chronological"
    /\ LET index == CreateChronologicalIndex(zettels, ix_hide)
           index_file_path == PathJoin(SitePath, ChronologicalIndexFileName)
       IN /\ ix_chrono' = index
          /\ zettels' = Append(zettels, Zettel(index_file_path, index))
    /\ ix_pc' = "done"
    /\ UNCHANGED <<ix_hide, ix_cat, ix_alpha>>
    /\ UNCHANGED <<identifier, found>>
    /\ UNCHANGED <<rewriteVars, replaceVars, reconcileVars, stageVars>>

NextIndex ==
    \/ EditCategoricalIndexFile
    \/ CreateAlphabeticalIndexFile
    \/ CreateChronologicalIndexFile

SpecIndex == InitIndex /\ [][NextIndex]_vars

-----------------------------------------------------------------------------
(* The index listings.                                                     *)

\* The lines of an index that are list items.
BulletLines(text) ==
    SelectSeq(SplitLines(text), LAMBDA l : StartsAt(l, 1, Bullet))

\* The zettels create_chronological_index was given: those before the
\* zettel of index.md was appended.
ChronoInput == SubSeq(zettels, 1, Len(zettels) - 1)

\* The zettels create_alphabetical_index was given.
AlphaInput ==
    IF ix_pc = "done" THEN SubSeq(zettels, 1, Len(zettels) - 2)
    ELSE SubSeq(zettels, 1, Len(zettels) - 1)

\* The indexes of the non-root zettels of zs with an ID, and without.
DatedNotes(zs) ==
    SelectSeq([k \in 1..Len(zs) |-> k],
              LAMBDA k : IsNotRootPage(zs[k]) /\ zs[k].id /= None)
UndatedNotes(zs) ==
    SelectSeq([k \in 1..Len(zs) |-> k],
              LAMBDA k : IsNotRootPage(zs[k]) /\ zs[k].id = None)

\* C13: the chronological index lists every non-root note with an ID exactly
\* once, newest ID first, and after them every non-root note without an ID
\* exactly once, in the order of the input list.
C13_ChronologicalOrder ==
    ix_pc = "done" =>
        LET zs == ChronoInput
            lines == BulletLines(ix_chrono)
            dated == DatedNotes(zs)
            undated == UndatedNotes(zs)
            nd == Len(dated)
        IN /\ Len(lines) = nd + Len(undated)
           /\ \A j \in 1..nd :
                 Cardinality({p \in 1..nd :
                                 EndsWith(lines[p], zs[dated[j]].link)}) = 1
           /\ \A p, q \in 1..nd : \A a, b \in Range(dated) :
                 /\ p < q
                 /\ EndsWith(lines[p], zs[a].link)
                 /\ EndsWith(lines[q], zs[b].link)
                 => ~StrLess(zs[a].id, zs[b].id)
           /\ \A j \in 1..Len(undated) :
                 lines[nd + j] = Bullet \o zs[undated[j]].link

\* A finished run whose input had an older ID before a newer one and two
\* notes without an ID.
C13_Witness ==
    /\ ix_pc = "done"
    /\ LET zs == ChronoInput
           dated == DatedNotes(zs)
       IN /\ Len(dated) >= 2
          /\ StrLess(zs[dated[1]].id, zs[dated[2]].id)
          /\ Len(UndatedNotes(zs)) >= 2
          /\ \E k \in 1..Len(zs) : ~IsNotRootPage(zs[k])

\* The zettels edit_categorical_index_file was given: the zettels of the
\* index files written later are appended after them.
CategoricalInput ==
    SubSeq(zettels, 1,
           Len(zettels) - (CASE ix_pc = "done" -> 2
                             [] ix_pc = "chronological" -> 1
                             [] OTHER -> 0))

\* The tags declared in the body of the categorical index note, other than
\* the publish marker.
DeclaredTags ==
    LET zs == CategoricalInput
    IN IF CategoricalIndexZettel(zs) = 0 THEN {}
       ELSE Range(zs[CategoricalIndexZettel(zs)].tags) \ {PublishedTag}

\* The categorical index note exists and carries the publish marker.
CategoricalIndexValid ==
    LET zs == CategoricalInput
    IN /\ CategoricalIndexZettel(zs) /= 0
       /\ InSeq(PublishedTag, zs[CategoricalIndexZettel(zs)].tags)

\* C14: editing a valid categorical index completes without error and the
\* index then holds, for each declared tag, a bullet with the link of every
\* non-root note that carries the tag, also of a note that carries several
\* declared tags.
C14_CategoricalListing ==
    (ix_pc /= "categorical" /\ CategoricalIndexValid) =>
        /\ ix_pc /= "crashed"
        /\ \A t \in DeclaredTags : \A k \in 1..Len(CategoricalInput) :
              LET z == CategoricalInput[k]
              IN (IsNotRootPage(z) /\ InSeq(t, z.tags))
                    => Contains(ix_cat, Bullet \o z.link)

\* The pages the indexes are to leave out: index, about and the three
\* index pages.
RootDesignatedPages ==
    {IndexName, AboutName, AlphaIndexName, ChronoIndexName,
     SplitExtRoot(CategoricalIndexFileName)}

\* The notes, other than those pages, that carry none of the declared tags.
UntaggedNotes ==
    {k \in 1..Len(CategoricalInput) :
        /\ CategoricalInput[k].file_name \notin RootDesignatedPages
        /\ Range(CategoricalInput[k].tags) \cap DeclaredTags = {}}

\* C15: the rewritten categorical index holds a bullet with the link of
\* every non-root note that carries none of the declared tags, and when
\* there is no such note every bullet of the index is that of a note with a
\* declared tag.
C15_OtherBucket ==
    ix_pc \in {"alphabetical", "chronological", "done"} =>
        /\ \A k \in UntaggedNotes :
              Contains(ix_cat, Bullet \o CategoricalInput[k].link)
        /\ UntaggedNotes = {} =>
              \A p \in 1..Len(BulletLines(ix_cat)) :
                 \E k \in 1..Len(CategoricalInput) :
                    /\ BulletLines(ix_cat)[p] = Bullet \o CategoricalInput[k].link
                    /\ Range(CategoricalInput[k].tags) \cap DeclaredTags /= {}

\* The index texts written so far.
WrittenListings ==
    (IF ix_pc \in {"alphabetical", "chronological", "done"}
     THEN {ix_cat} ELSE {})
    \cup ({ix_alpha} \ {NotWritten}) \cup ({ix_chrono} \ {NotWritten})

\* C16: no written listing holds a link to index, about, alphabetical-index,
\* chronological-index or categorical-index.
C16_NoRootPageListed ==
    \A text \in WrittenListings : \A name \in RootDesignatedPages :
        ~Contains(text, ZkLinkStart \o name \o ZkLinkEnd)

\* C17: when the list has no categorical index note, or the body of that
\* note lacks the publish marker, the step taken is the fatal exit, and it
\* writes no index file and leaves categorical-index.md as it is.
C17_CategoricalIndexRequired ==
    [][ ~CategoricalIndexValid =>
            /\ ix_pc' = "exit"
            /\ UNCHANGED <<ix_cat, ix_alpha, ix_chrono, zettels>> ]_vars

\* A run that has exited for a list of several notes without a categorical
\* index note: no index file exists.
C17_Witness ==
    /\ ix_pc = "exit"
    /\ CategoricalIndexZettel(zettels) = 0
    /\ Len(zettels) >= 2
    /\ ix_cat = NoFile /\ ix_alpha = NotWritten /\ ix_chrono = NotWritten

\* C18: the alphabetical index lists every non-root note exactly once, each
\* as a bullet with its link, ordered by lower-cased title; notes whose
\* lower-cased titles are equal keep the order of the input list.
C18_AlphabeticalOrder ==
    ix_alpha /= NotWritten =>
        LET zs == AlphaInput
            lines == BulletLines(ix_alpha)
            notes == {k \in 1..Len(zs) : IsNotRootPage(zs[k])}
            key(k) == LowerCaseText(zs[k].title)
        IN /\ Len(lines) = Cardinality(notes)
           /\ \A k \in notes :
                 Cardinality({p \in 1..Len(lines) :
                                 lines[p] = Bullet \o zs[k].link}) = 1
           /\ \A p, q \in 1..Len(lines) : \A a, b \in notes :
                 /\ p < q
                 /\ lines[p] = Bullet \o zs[a].link
                 /\ lines[q] = Bullet \o zs[b].link
                 => /\ ~StrLess(key(b), key(a))
                    /\ key(a) = key(b) => a < b

\* A written alphabetical index for a list that holds two notes whose titles
\* differ in case only and two notes that are not in title order.
C18_Witness ==
    /\ ix_alpha /= NotWritten
    /\ LET zs == AlphaInput
       IN /\ \E a, b \in 1..Len(zs) :
                /\ a < b
                /\ IsNotRootPage(zs[a]) /\ IsNotRootPage(zs[b])
                /\ zs[a].title /= zs[b].title
                /\ LowerCaseText(zs[a].title) = LowerCaseText(zs[b].title)
                /\ StrLess(zs[b].title, zs[a].title)
          /\ \E a, b \in 1..Len(zs) :
                /\ a < b
                /\ IsNotRootPage(zs[a]) /\ IsNotRootPage(zs[b])
                /\ StrLess(LowerCaseText(zs[b].title),
                           LowerCaseText(zs[a].title))
          /\ \E k \in 1..Len(zs) : ~IsNotRootPage(zs[k])

-----------------------------------------------------------------------------
(* The behaviours of get_zettels_to_publish (src/ssg/generate_site.py): a  *)
(* Zettel is constructed for each file that holds the publish marker.      *)

\* The names and the texts the files to publish may have: a header on the
\* first line of several, a header on a later line, no header, a body of
\* one line, two headers, an ID in the body.
TitleFileNames ==
    { IndexName \o ExtMd, AboutName \o ExtMd,
      <<"n", ".", "m", "d">>,
      <<"2", "0", "2", "0", "0", "1", "0", "1", "0", "0", "0", "0", "0", "0", ".", "m", "d">> }
TitleFileTexts ==
    { <<"#", " ", "T", "\n", "#", "p", "u", "b", "l", "i", "s", "h", "e", "d", "\n">>,
      <<"x", " ", "#", "p", "u", "b", "l", "i", "s", "h", "e", "d", "\n", "#", " ", "T", "\n">>,
      <<"x", " ", "#", "p", "u", "b", "l", "i", "s", "h", "e", "d", "\n">>,
      <<"#", " ", "T", " ", "#", "p", "u", "b", "l", "i", "s", "h", "e", "d", "\n">>,
      <<"#", " ", "T", "\n", "#", " ", "N", " ", "#", "p", "u", "b", "l", "i", "s", "h", "e", "d", "\n">>,
      <<"x", " ", "#", "p", "u", "b", "l", "i", "s", "h", "e", "d", "\n">> \o Id1 \o Newline }

InitTitle ==
    /\ zettels = <<>>
    /\ identifier = <<>>
    /\ found = [done |-> FALSE, index |-> 0]
    /\ RewriteIdle /\ ReplaceIdle /\ ReconcileIdle /\ IndexIdle /\ StageIdle

\* for path in zettel_paths: zettels.append(Zettel(path)); files holds the
\* text of each file read.
AppendZettel ==
    /\ Len(zettels) < MaxZettels
    /\ \E name \in TitleFileNames : \E contents \in TitleFileTexts :
          /\ \A k \in 1..Len(zettels) : zettels[k].file_name_and_ext /= name
          /\ zettels' = Append(zettels,
                               Zettel(PathJoin(ZettelkastenPath, name),
                                      contents))
          /\ files' = Append(files, contents)
    /\ UNCHANGED <<identifier, found>>
    /\ UNCHANGED <<orig, pos, run, log, links_made>>
    /\ UNCHANGED <<replaceVars, reconcileVars, indexVars, stageVars>>

NextTitle == AppendZettel

SpecTitle == InitTitle /\ [][NextTitle]_vars

\* The content of the first line of a text that is a level-1 header, None
\* if no line is one.
FirstH1Content(contents) ==
    LET lines == SplitLines(contents)
        hits == {p \in 1..Len(lines) :
                    StartsAt(lines[p], 1, <<"#", " ">>) /\ Len(lines[p]) >= 3}
        first == CHOOSE p \in hits : \A q \in hits : p <= q
    IN IF hits = {} THEN None
       ELSE SubSeq(lines[first], 3, Len(lines[first]))

\* The file names whose title is fixed.
TitledByName == {IndexName \o ExtMd, AboutName \o ExtMd}

C20_TitleIsFirstHeader ==
    \A k \in 1..Len(zettels) :
        /\ zettels[k].file_name_and_ext = IndexName \o ExtMd
              => zettels[k].title = IndexName
        /\ zettels[k].file_name_and_ext = AboutName \o ExtMd
              => zettels[k].title = AboutName
        /\ (/\ zettels[k].file_name_and_ext \notin TitledByName
            /\ FirstH1Content(files[k]) /= None)
              => zettels[k].title = FirstH1Content(files[k])

\* C21: the link of a Zettel is "[[id]] title" when it has an ID, whatever
\* its file name, and "[[file_name]]" when it has none; its alternate link
\* is always "[[file_name]]"; the two are equal exactly when it has no ID.
C21_LinkTexts ==
    \A k \in 1..Len(zettels) :
        LET z == zettels[k]
            name_link == <<"[", "[">> \o z.file_name \o <<"]", "]">>
        IN /\ z.id /= None =>
                 z.link = <<"[", "[">> \o z.id \o <<"]", "]", " ">> \o z.title
           /\ z.id = None => z.link = name_link
           /\ z.alt_link = name_link
           /\ (z.link = z.alt_link) <=> (z.id = None)

\* Zettels with an ID that is not the file name, with an ID that is the file
\* name, and without an ID.
C21_Witness ==
    /\ \E k \in 1..Len(zettels) :
          zettels[k].id /= None /\ zettels[k].id /= zettels[k].file_name
    /\ \E k \in 1..Len(zettels) : zettels[k].id = zettels[k].file_name
    /\ \E k \in 1..Len(zettels) : zettels[k].id = None

-----------------------------------------------------------------------------
(* Discovery: get_zettels_to_publish, get_paths_of_zettels_to_publish and  *)
(* get_file_paths (src/ssg/generate_site.py).                              *)

MaxFiles == 3      \* files in the zettelkasten folder

\* settings["zettel file types"]
ZettelFileTypes == <<ExtMd, ExtMarkdown>>

\* The length of "#published".
PublishedTagLen == Len(PublishedTag)

\* A slip that looks for the marker anywhere in the text.
PublishedTagSearch_Substring(contents) == Contains(contents, PublishedTag)

\* settings["patterns"]["published tag"].search(contents) is not None: the
\* pattern is (?<=\s)#published(?=\s).
PublishedTagSearch(contents) ==
    \E p \in 2..Len(contents) :
        /\ StartsAt(contents, p, PublishedTag)
        /\ contents[p - 1] \in WhiteSpace
        /\ p + PublishedTagLen <= Len(contents)
        /\ contents[p + PublishedTagLen] \in WhiteSpace

\* The inner loop of get_file_paths for one file name: the path once for
\* each extension the lower-case name ends with.
PathsOfFileName(dir_path, file_name, file_extensions) ==
    LET hits == SelectSeq(file_extensions,
                    LAMBDA e : EndsWith(LowerCaseText(file_name), e))
    IN [k \in 1..Len(hits) |-> PathJoin(dir_path, file_name)]

\* get_file_paths(dir_path, file_extensions), given os.listdir(dir_path).
RECURSIVE GetFilePathsOfTypes(_, _, _)
GetFilePathsOfTypes(dir_path, file_names, file_extensions) ==
    IF file_names = <<>> THEN <<>>
    ELSE PathsOfFileName(dir_path, Head(file_names), file_extensions)
            \o GetFilePathsOfTypes(dir_path, Tail(file_names),
                                   file_extensions)

\* The names and the texts the files of the folder may have.
DiscoverFileNames ==
    { <<"a", ".", "m", "d">>,
      <<"b", ".", "M", "D">>,
      <<"c", ".", "m", "a", "r", "k", "d", "o", "w", "n">>,
      <<"d", ".", "t", "x", "t">> }
DiscoverFileTexts ==
    { <<"x", " ", "#", "p", "u", "b", "l", "i", "s", "h", "e", "d", "\n">>,
      <<"x", "#", "p", "u", "b", "l", "i", "s", "h", "e", "d", " ", "\n">>,
      <<"x", " ", "#", "p", "u", "b", "l", "i", "s", "h", "e", "d", "-", "n", "o", " ", "\n">>,
      <<"#", "p", "u", "b", "l", "i", "s", "h", "e", "d">> }

\* The folders: up to MaxFiles files of different names, in the order
\* os.listdir gives them.
DiscoverFolders ==
    {d \in SeqsUpTo([name : DiscoverFileNames, contents : DiscoverFileTexts],
                    MaxFiles) :
        \A a, b \in 1..Len(d) : a /= b => d[a].name /= d[b].name}

\* get_file_contents(zettel_path, "utf8")
GetFileContents(dir, path) ==
    dir[CHOOSE k \in 1..Len(dir) :
            PathJoin(ZettelkastenPath, dir[k].name) = path].contents

InitDiscover ==
    /\ ds_dir \in DiscoverFolders
    /\ ds_pc = "listing"
    /\ ds_paths = <<>>
    /\ ds_i = 0
    /\ ds_out = <<>>
    /\ ResolveIdle /\ RewriteIdle /\ ReplaceIdle /\ ReconcileIdle /\ IndexIdle
    /\ AttachIdle /\ CallIdle /\ SiteIdle

\* get_paths_of_zettels_to_publish up to its loop: the paths are listed and
\* 39 / len(zettel_paths) is computed, which raises ZeroDivisionError for
\* an empty list.
ListZettelPaths ==
    /\ ds_pc = "listing"
    /\ LET zettel_paths ==
               GetFilePathsOfTypes(ZettelkastenPath,
                                   [k \in 1..Len(ds_dir) |-> ds_dir[k].name],
                                   ZettelFileTypes)
       IN /\ ds_paths' = zettel_paths
          /\ ds_pc' = IF Len(zettel_paths) = 0 THEN "raised" ELSE "reading"
    /\ ds_i' = 1
    /\ UNCHANGED <<ds_dir, ds_out>>
    /\ UNCHANGED <<resolveVars, rewriteVars, replaceVars, reconcileVars,
                   indexVars, attachVars, callVars, siteVars>>

\* One turn of the loop: the file is read and its path kept if the publish
\* marker is found.
ReadZettelPath ==
    /\ ds_pc = "reading"
    /\ ds_i <= Len(ds_paths)
    /\ LET zettel_path == ds_paths[ds_i]
           contents == GetFileContents(ds_dir, zettel_path)
       IN ds_out' = IF PublishedTagSearch(contents)
                    THEN Append(ds_out, zettel_path)
                    ELSE ds_out
    /\ ds_i' = ds_i + 1
    /\ UNCHANGED <<ds_dir, ds_pc, ds_paths>>
    /\ UNCHANGED <<resolveVars, rewriteVars, replaceVars, reconcileVars,
                   indexVars, attachVars, callVars, siteVars>>

\* The loop is over: get_paths_of_zettels_to_publish returns and
\* get_zettels_to_publish makes a Zettel of each path.
ReturnZettelsToPublish ==
    /\ ds_pc = "reading"
    /\ ds_i > Len(ds_paths)
    /\ ds_pc' = "returned"
    /\ zettels' = [k \in 1..Len(ds_out) |->
                      Zettel(ds_out[k], GetFileContents(ds_dir, ds_out[k]))]
    /\ UNCHANGED <<ds_dir, ds_paths, ds_i, ds_out>>
    /\ UNCHANGED <<identifier, found>>
    /\ UNCHANGED <<rewriteVars, replaceVars, reconcileVars, indexVars,
                   attachVars, callVars, siteVars>>

NextDiscover ==
    \/ ListZettelPaths
    \/ ReadZettelPath
    \/ ReturnZettelsToPublish

SpecDiscover == InitDiscover /\ [][NextDiscover]_vars

\* The name ends with a note extension, whatever its case.
HasNoteExtension(name) ==
    \/ EndsWith(LowerCaseText(name), <<".", "m", "d">>)
    \/ EndsWith(LowerCaseText(name),
                <<".", "m", "a", "r", "k", "d", "o", "w", "n">>)

\* The text holds "#published" between two white-space characters.
CarriesPublishMarker(contents) ==
    \E p \in 1..Len(contents) : \E q \in 1..Len(contents) :
        /\ q = p + PublishedTagLen + 1
        /\ contents[p] \in WhiteSpace
        /\ contents[q] \in WhiteSpace
        /\ SubSeq(contents, p + 1, q - 1) = PublishedTag

\* C22: a returned discovery gives, in the order of the listing and each
\* once, the paths of exactly the files whose name has a note extension and
\* whose text carries the publish marker between white space, and a Zettel
\* is made of those files only.
C22_DiscoveryFilter ==
    ds_pc = "returned" =>
        LET wanted == SelectSeq(ds_dir,
                          LAMBDA f : /\ HasNoteExtension(f.name)
                                     /\ CarriesPublishMarker(f.contents))
        IN /\ ds_out = [k \in 1..Len(wanted) |->
                           PathJoin(ZettelkastenPath, wanted[k].name)]
           /\ Len(zettels) = Len(wanted)
           /\ \A k \in 1..Len(wanted) :
                 zettels[k].file_name_and_ext = wanted[k].name

\* A returned discovery of a folder with a marked file whose extension is
\* in upper case, a note file with the marker inside a longer word, and a
\* marked file that is no note file.
C22_Witness ==
    /\ ds_pc = "returned"
    /\ Len(ds_out) >= 1
    /\ \E k \in 1..Len(ds_dir) :
          /\ HasNoteExtension(ds_dir[k].name)
          /\ ds_dir[k].name /= LowerCaseText(ds_dir[k].name)
          /\ CarriesPublishMarker(ds_dir[k].contents)
    /\ \E k \in 1..Len(ds_dir) :
          /\ HasNoteExtension(ds_dir[k].name)
          /\ Contains(ds_dir[k].contents, PublishedTag)
          /\ ~CarriesPublishMarker(ds_dir[k].contents)
    /\ \E k \in 1..Len(ds_dir) :
          /\ ~HasNoteExtension(ds_dir[k].name)
          /\ CarriesPublishMarker(ds_dir[k].contents)

\* C29: a discovery of a folder that has no file with a note extension, or
\* none that carries the publish marker, ends by returning the empty list.
C29_EmptySourceReturns ==
    (/\ ds_pc \in {"returned", "raised"}
     /\ \A k \in 1..Len(ds_dir) :
           ~(/\ HasNoteExtension(ds_dir[k].name)
             /\ CarriesPublishMarker(ds_dir[k].contents)))
        => /\ ds_pc = "returned"
           /\ ds_out = <<>>
           /\ zettels = <<>>

-----------------------------------------------------------------------------
(* Attachment paths: make_file_paths_relative (src/ssg/reformat_zettels.py) *)
(* calls replace_pattern with file_must_exist=True, which hands the text   *)
(* outside code to replace_file_paths (src/ssg/utils.py).                  *)

\* [a-zA-Z0-9_-], the characters of a file extension.
ExtensionChar == Lower \cup Upper \cup Digit \cup {"_", "-"}

\* The last index of the run of extension characters that starts at k
\* (k - 1 when there is none).
ExtensionRunEnd(t, k) ==
    LET run_ends == {e \in k..Len(t) : \A j \in k..e : t[j] \in ExtensionChar}
    IN IF run_ends = {} THEN k - 1
       ELSE CHOOSE e \in run_ends : \A r \in run_ends : r <= e

\* settings["patterns"]["absolute attachment link"] matched at position p:
\*   (?<=]\()(?:file://)?(?:[a-zA-Z]:|/)[^\n]*?([^\\/\n]+\.[a-zA-Z0-9_-]+)(?=\))
\* [s |-> first index of group 1, e |-> last index of the match], both 0
\* when the pattern does not match at p.  The lazy [^\n]*? takes the first
\* start of group 1 that works, the greedy [^\\/\n]+ the longest name.
AbsoluteAttachmentLinkMatch(t, p) ==
    LET q == IF StartsAt(t, p, <<"f", "i", "l", "e", ":", "/", "/">>)
             THEN p + 7 ELSE p
        r == IF /\ q + 1 <= Len(t)
                /\ t[q] \in Lower \cup Upper
                /\ t[q + 1] = ":"
             THEN q + 2
             ELSE IF q <= Len(t) /\ t[q] = "/" THEN q + 1 ELSE 0
        NameEnds(s) ==
            {m \in s..Len(t) :
                /\ \A j \in s..m : t[j] \notin {"\\", "/", "\n"}
                /\ m + 1 <= Len(t) /\ t[m + 1] = "."
                /\ ExtensionRunEnd(t, m + 2) >= m + 2
                /\ ExtensionRunEnd(t, m + 2) + 1 <= Len(t)
                /\ t[ExtensionRunEnd(t, m + 2) + 1] = ")"}
        starts == {s \in r..Len(t) :
                      /\ \A j \in r..(s - 1) : t[j] /= "\n"
                      /\ NameEnds(s) /= {}}
    IN IF \/ p < 3 \/ p > Len(t)
          \/ t[p - 2] /= "]" \/ t[p - 1] /= "("
          \/ r = 0 \/ starts = {}
       THEN [s |-> 0, e |-> 0]
       ELSE LET s == CHOOSE x \in starts : \A y \in starts : x <= y
                m == CHOOSE x \in NameEnds(s) : \A y \in NameEnds(s) : y <= x
            IN [s |-> s, e |-> ExtensionRunEnd(t, m + 2)]

\* path_pattern.search(contents, start): the first position from start on
\* at which the pattern matches, or 0.
AbsoluteAttachmentLinkSearch(t, start) ==
    LET hits == {p \in start..Len(t) : AbsoluteAttachmentLinkMatch(t, p).e > 0}
    IN IF hits = {} THEN 0 ELSE CHOOSE p \in hits : \A q \in hits : p <= q

\* path_pattern.sub(r"\1", contents, count=1): the first match of the whole
\* text replaced by its group 1.
SubFirstAttachmentLink(contents) ==
    CHOOSE out \in
        UNION {{IF p = 0 THEN contents
                ELSE SubSeq(contents, 1, p - 1) \o SubSeq(contents, m.s, m.e)
                         \o SubSeq(contents, m.e + 1, Len(contents)) :
                   m \in {AbsoluteAttachmentLinkMatch(contents, p)}} :
               p \in {AbsoluteAttachmentLinkSearch(contents, 1)}} : TRUE

\* The loop of replace_file_paths: search from start; if the matched text
\* is an existing file, sub with count=1 on the whole text; start becomes
\* the end of the match as it was found.
RECURSIVE ReplaceFilePathsFrom(_, _, _, _)
ReplaceFilePathsFrom(contents, start, n_replaced, existing) ==
    CHOOSE out \in
        UNION {{IF p = 0 THEN [text |-> c, n |-> n]
                ELSE IF SubSeq(c, p, m.e) \in existing
                     THEN ReplaceFilePathsFrom(SubFirstAttachmentLink(c),
                                               m.e + 1, n + 1, existing)
                     ELSE ReplaceFilePathsFrom(c, m.e + 1, n, existing) :
                   c \in {contents}, n \in {n_replaced},
                   m \in {AbsoluteAttachmentLinkMatch(contents, p)}} :
               p \in {AbsoluteAttachmentLinkSearch(contents, start)}} : TRUE

ReplaceFilePaths(contents, existing) ==
    ReplaceFilePathsFrom(contents, 1, 0, existing)

\* replace_pattern for one file with file_must_exist=True: the code blocks
\* taken out, replace_file_paths, the code blocks put back; the file is
\* written only if something was replaced.
ReplacePatternFileMustExist(contents, existing) ==
    LET triple_codeblocks == TripleCodeblocks(contents)
        single_codeblocks == SingleCodeblocks(contents)
    IN CHOOSE out \in
           {[n_replaced |-> r.n,
             file |-> IF r.n > 0
                      THEN PutBack(PutBack(r.text, single_codeblocks,
                                           SinglePlaceholder),
                                   triple_codeblocks, TriplePlaceholder)
                      ELSE contents] :
               r \in {ReplaceFilePaths(OutsideCode(contents), existing)}} :
           TRUE

\* The pieces of a note given to make_file_paths_relative: three links
\* with an absolute target, one with a relative target, plain text and a
\* link inside a code span.
AttachmentSegments ==
    { <<"]", "(", "/", "x", ".", "p", ")">>,
      <<"]", "(", "/", "y", ".", "p", ")">>,
      <<"]", "(", "/", "d", "d", "/", "x", ".", "p", ")">>,
      <<"]", "(", "n", ".", "p", ")">>,
      <<" ", "t", "\n">>,
      <<Backtick, "]", "(", "/", "x", ".", "p", ")", Backtick>> }
\* The paths that may name an existing file.
AttachmentPaths ==
    { <<"/", "x", ".", "p">>,
      <<"/", "y", ".", "p">>,
      <<"/", "d", "d", "/", "x", ".", "p">> }

InitAttach ==
    /\ \E segs \in SeqsUpTo(AttachmentSegments, MaxSegs) :
          ap_file = Concat(segs)
    /\ ap_orig = ap_file
    /\ ap_exist \in SUBSET AttachmentPaths
    /\ ap_total = 0
    /\ ap_pc = "ready"
    /\ ResolveIdle /\ RewriteIdle /\ ReplaceIdle /\ ReconcileIdle /\ IndexIdle
    /\ DiscoverIdle /\ CallIdle /\ SiteIdle

\* make_file_paths_relative for the one note: replace_pattern with the
\* pattern "absolute attachment link", the replacement r"\1" and
\* file_must_exist=True.
MakeFilePathsRelative ==
    /\ ap_pc = "ready"
    /\ \E r \in {ReplacePatternFileMustExist(ap_file, ap_exist)} :
          /\ ap_file' = r.file
          /\ ap_total' = r.n_replaced
    /\ ap_pc' = "done"
    /\ UNCHANGED <<ap_orig, ap_exist>>
    /\ UNCHANGED <<resolveVars, rewriteVars, replaceVars, reconcileVars,
                   indexVars, discoverVars, callVars, siteVars>>

NextAttach == MakeFilePathsRelative

SpecAttach == InitAttach /\ [][NextAttach]_vars

\* The text from position p on in which every absolute-path target that
\* names an existing file is replaced by its bare file name, and the number
\* of targets replaced.
RECURSIVE RelativeWhereExisting(_, _, _)
RelativeWhereExisting(t, p, existing) ==
    CHOOSE out \in
        {IF m.e = 0 THEN [text |-> SubSeq(t, p, Len(t)), n |-> 0]
         ELSE CHOOSE with_rest \in
                 {IF SubSeq(t, m.e - Len(m.whole) + 1, m.e) \in existing
                  THEN [text |-> SubSeq(t, p, m.e - Len(m.whole))
                                     \o SubSeq(t, m.s, m.e) \o rest.text,
                        n |-> rest.n + 1]
                  ELSE [text |-> SubSeq(t, p, m.e) \o rest.text,
                        n |-> rest.n] :
                     rest \in {RelativeWhereExisting(t, m.e + 1, existing)}} :
                 TRUE :
            m \in {LET q == AbsoluteAttachmentLinkSearch(t, p)
                       r == AbsoluteAttachmentLinkMatch(t, q)
                   IN [s |-> r.s, e |-> r.e,
                       whole |-> IF q = 0 THEN <<>>
                                 ELSE SubSeq(t, q, r.e)]}} : TRUE

\* C26: after make_file_paths_relative, an absolute-path link target of
\* the note is replaced by its bare file name if and only if it names an
\* existing file, a target that names no existing file is left as it was
\* wherever it stands among the other targets, and the count returned is
\* the number of targets rewritten.
C26_ExistingTargetsMadeRelative ==
    ap_pc = "done" =>
        \E want \in {RelativeWhereExisting(t, 1, ap_exist) :
                         t \in {OutsideCode(ap_orig)}} :
           /\ ap_total = want.n
           /\ ap_file = IF want.n = 0 THEN ap_orig
                        ELSE PutBack(PutBack(want.text,
                                             SingleCodeblocks(ap_orig),
                                             SinglePlaceholder),
                                     TripleCodeblocks(ap_orig),
                                     TriplePlaceholder)

-----------------------------------------------------------------------------
(* Calls of convert_links_from_zk_to_md (src/ssg/convert_links.py) with    *)
(* its default arguments: zettels=[] is one list, made when the function   *)
(* is defined and shared by every call that does not pass zettels.         *)

\* The default md_linker: f"[{linked_z.title}]({linked_z.file_name})".
DefaultMdLinker(zettel, linked_z) ==
    <<"[">> \o linked_z.title \o <<"]", "(">> \o linked_z.file_name \o <<")">>

\* The loop of convert_zettel_links_from_zk_to_md with the default
\* md_linker, over the IDs in the order ids, from the state
\* st = [contents, log, crashed].
RECURSIVE ConvertZettelLinks(_, _, _, _)
ConvertZettelLinks(zettel, zs, ids, st) ==
    IF ids = <<>> \/ st.crashed THEN st
    ELSE LET j == GetZettelById(Head(ids), zs)
             linked_z == zs[j]
         IN IF j = 0
            THEN [st EXCEPT !.crashed = TRUE]
            ELSE ConvertZettelLinks(zettel, zs, Tail(ids),
                     [contents |-> StrReplace(st.contents, linked_z.link,
                                      DefaultMdLinker(zettel, linked_z)),
                      log |-> IF ~Contains(st.contents, linked_z.link)
                              THEN Append(st.log, [zettel |-> zettel.title,
                                                   names |-> linked_z.link])
                              ELSE st.log,
                      crashed |-> FALSE])

\* The files of the folder: a note with an ID, a note that links to it and
\* a note without links.
PathL == PathJoin(ZettelkastenPath, NamePh \o ExtMd)
ContentsL == <<"x">> \o Newline \o NoteB.link \o Newline
CallPaths == {PathB, PathL, PathC}
CallFiles ==
    [p \in CallPaths |->
        CASE p = PathB -> ContentsB
          [] p = PathL -> ContentsL
          [] p = PathC -> ContentsC]

\* The lists of paths a call is given as zettel_paths.
MaxPaths == 2
ZettelPathLists == SeqsUpTo(CallPaths, MaxPaths)

\* The list the latest call works on.
CalledZettels ==
    IF cl_arg.zettels = "default" THEN cl_default ELSE cl_caller

InitCalls ==
    /\ cl_disk = CallFiles
    /\ cl_default = <<>>
    /\ cl_caller \in {<<>>, <<NoteB>>, <<NoteB, Zettel(PathL, ContentsL)>>}
    /\ cl_before = cl_caller
    /\ cl_arg = [zettels |-> "default", zettel_paths |-> <<>>]
    /\ cl_pc = "ready"
    /\ cl_i = 0
    /\ cl_seen = <<>>
    /\ cl_calls = 0
    /\ cl_log = <<>>
    /\ ResolveIdle /\ RewriteIdle /\ ReplaceIdle /\ ReconcileIdle /\ IndexIdle
    /\ DiscoverIdle /\ AttachIdle /\ SiteIdle

\* The call up to its loop: the list bound to zettels (the default list
\* when the caller passes none) is extended in place by a Zettel of each
\* path of zettel_paths.
CallConvertLinks(passed, zettel_paths) ==
    /\ cl_pc = "ready"
    /\ cl_calls < MaxCalls
    /\ cl_calls' = cl_calls + 1
    /\ cl_arg' = [zettels |-> passed, zettel_paths |-> zettel_paths]
    /\ cl_before' = cl_caller
    /\ LET made == [k \in 1..Len(zettel_paths) |->
                       Zettel(zettel_paths[k], cl_disk[zettel_paths[k]])]
       IN IF passed = "default"
          THEN cl_default' = cl_default \o made /\ UNCHANGED cl_caller
          ELSE cl_caller' = cl_caller \o made /\ UNCHANGED cl_default
    /\ cl_pc' = "loop"
    /\ cl_i' = 0
    /\ cl_seen' = <<>>
    /\ UNCHANGED <<cl_disk, cl_log>>
    /\ UNCHANGED <<resolveVars, rewriteVars, replaceVars, reconcileVars,
                   indexVars, discoverVars, attachVars, siteVars>>

\* convert_links_from_zk_to_md(zettel_paths=...): zettels is not passed.
CallWithZettelPaths ==
    \E zettel_paths \in ZettelPathLists \ {<<>>} :
        CallConvertLinks("default", zettel_paths)

\* convert_links_from_zk_to_md(zettels, ...): the caller's list is passed,
\* with or without zettel_paths.
CallWithZettels ==
    \E zettel_paths \in ZettelPathLists :
        CallConvertLinks("caller", zettel_paths)

\* One turn of "for zettel in zettels": the links of the zettel are
\* converted and the file saved; an ID no zettel of the list has raises
\* AttributeError.
ConvertNextZettel ==
    /\ cl_pc = "loop"
    /\ cl_i < Len(CalledZettels)
    /\ cl_i' = cl_i + 1
    /\ LET zettel == CalledZettels[cl_i + 1]
           contents == cl_disk[zettel.path]
       IN /\ cl_seen' = Append(cl_seen, zettel.path)
          /\ IF contents = <<>>
             THEN UNCHANGED <<cl_disk, cl_log, cl_pc>>
             ELSE \E ids \in Orders(LinkIds(contents)) :
                     LET st == ConvertZettelLinks(zettel, CalledZettels, ids,
                                   [contents |-> contents, log |-> cl_log,
                                    crashed |-> FALSE])
                     IN /\ cl_log' = st.log
                        /\ IF st.crashed
                           THEN cl_pc' = "crashed" /\ UNCHANGED cl_disk
                           ELSE /\ cl_disk' = [cl_disk EXCEPT
                                                  ![zettel.path] = st.contents]
                                /\ UNCHANGED cl_pc
    /\ UNCHANGED <<cl_default, cl_caller, cl_before, cl_arg, cl_calls>>
    /\ UNCHANGED <<resolveVars, rewriteVars, replaceVars, reconcileVars,
                   indexVars, discoverVars, attachVars, siteVars>>

\* The loop is over: the call returns.
ReturnFromConvertLinks ==
    /\ cl_pc = "loop"
    /\ cl_i = Len(CalledZettels)
    /\ cl_pc' = "ready"
    /\ UNCHANGED <<cl_disk, cl_default, cl_caller, cl_before, cl_arg, cl_i,
                   cl_seen, cl_calls, cl_log>>
    /\ UNCHANGED <<resolveVars, rewriteVars, replaceVars, reconcileVars,
                   indexVars, discoverVars, attachVars, siteVars>>

NextCalls ==
    \/ CallWithZettelPaths
    \/ CallWithZettels
    \/ ConvertNextZettel
    \/ ReturnFromConvertLinks

SpecCalls == InitCalls /\ [][NextCalls]_vars

\* C30: a call that passes only zettel_paths converts the notes at those
\* paths and no other, so no note given to an earlier call; and a call that
\* passes a list of zettels leaves that list with the elements it had
\* before the call.
C30_CallsIndependent ==
    cl_calls > 0 =>
        /\ (cl_arg.zettels = "default" =>
              /\ \A k \in 1..Len(cl_seen) :
                    \E j \in 1..Len(cl_arg.zettel_paths) :
                        cl_seen[k] = cl_arg.zettel_paths[j]
              /\ cl_pc = "ready" => cl_seen = cl_arg.zettel_paths)
        /\ (cl_arg.zettels = "caller" => cl_caller = cl_before)

-----------------------------------------------------------------------------
(* A run of generate_site (src/ssg/generate_site.py) on a file system: the *)
(* stages in the order of the code, each file operation recorded.          *)

\* The file system: a function from the paths of the files to their texts.
FsHas(fs, path) == path \in DOMAIN fs
FsWrite(fs, path, text) ==
    [p \in DOMAIN fs \cup {path} |-> IF p = path THEN text ELSE fs[p]]
FsRemove(fs, path) == [p \in DOMAIN fs \ {path} |-> fs[p]]

\* A file operation: "copy", "write", "remove" or "trash" of a path by a
\* stage; "list" is the reading of old_html_paths.
Event(stage, op, path) == [stage |-> stage, op |-> op, path |-> path]

\* os.listdir(dir_path): the names of the files of the folder, in the order
\* the system gives them.
ListDir(fs, order, dir_path) ==
    SelectSeq(order, LAMBDA n : FsHas(fs, PathJoin(dir_path, n)))

\* The notes a zettelkasten folder is made of: the categorical index, a
\* published index.md, a published note with an ID, a published note that
\* links to it and holds a markdown link, and a note that is not published.
SiteNoteFiles ==
    { [name |-> CategoricalIndexFileName,
       contents |-> <<"x", " ", "#", "p", "u", "b", "l", "i", "s", "h", "e", "d", "\n", "#", "a", "\n">>],
      [name |-> ChronologicalIndexFileName,
       contents |-> <<"y", " ", "#", "p", "u", "b", "l", "i", "s", "h", "e", "d", "\n">>],
      [name |-> Id1 \o ExtMd,
       contents |-> <<"x", " ", "#", "p", "u", "b", "l", "i", "s", "h", "e", "d", " ", "#", "a", "\n">>],
      [name |-> NamePh \o ExtMd,
       contents |-> <<"z", " ", "#", "p", "u", "b", "l", "i", "s", "h", "e", "d", "\n">>
                    \o GetZettelLink(Id1, Id1, Id1 \o ExtMd)
                    \o <<"\n", "[", "t", "]", "(", "p", "h", ".", "m", "d", ")", "\n">>],
      [name |-> NameEm \o ExtMd,
       contents |-> <<"x", "\n">>] }

\* The zettelkasten folders: up to MaxFiles notes, in the order of the
\* listing.
SiteFolders ==
    {fs \in SeqsUpTo(SiteNoteFiles, MaxFiles) :
        \A i, j \in 1..Len(fs) : i /= j => fs[i].name /= fs[j].name}

\* The files the site folder holds from an earlier run.
OldMdName == <<"o", ".", "m", "d">>
OldHtmlName == <<"o", ".", "h", "t", "m", "l">>
IndexHtmlName == IndexName \o ExtHtml
OldSiteFiles ==
    [p \in {PathJoin(SitePagesPath, OldMdName),
            PathJoin(SitePagesPath, OldHtmlName),
            PathJoin(SitePath, IndexHtmlName)} |->
        IF p = PathJoin(SitePagesPath, OldMdName)
        THEN <<"x", "\n">>
        ELSE <<"<html>">>]

\* The settings the run may be given: the zettelkasten folder is any
\* existing folder other than the site folder (validate_settings), so it
\* may be the pages folder of the site.
ZettelkastenPaths == {ZettelkastenPath, SitePagesPath}

InitSite ==
    /\ gs_zk \in ZettelkastenPaths
    /\ gs_settings \in [hide_tags : BOOLEAN, hide_chrono_index_dates : {TRUE}]
    /\ \E folder \in SiteFolders :
          /\ gs_fs = [p \in DOMAIN OldSiteFiles
                            \cup {PathJoin(gs_zk, folder[k].name) :
                                     k \in 1..Len(folder)} |->
                        IF \E k \in 1..Len(folder) :
                               p = PathJoin(gs_zk, folder[k].name)
                        THEN folder[CHOOSE k \in 1..Len(folder) :
                                 p = PathJoin(gs_zk, folder[k].name)].contents
                        ELSE OldSiteFiles[p]]
          /\ gs_order = [k \in 1..Len(folder) |-> folder[k].name]
                            \o <<OldMdName, OldHtmlName, IndexHtmlName>>
    /\ gs_pc = "get zettels"
    /\ gs_i = 0
    /\ gs_events = <<>>
    /\ gs_found = <<>>
    /\ gs_old = <<>>
    /\ gs_new = <<>>
    /\ zettels = <<>>
    /\ identifier = <<>>
    /\ found = [done |-> FALSE, index |-> 0]
    /\ RewriteIdle /\ ReplaceIdle /\ ReconcileIdle /\ IndexIdle
    /\ DiscoverIdle /\ AttachIdle /\ CallIdle

\* What every stage of the run leaves alone.
SiteFrame ==
    /\ UNCHANGED <<identifier, found>>
    /\ UNCHANGED <<rewriteVars, replaceVars, reconcileVars, indexVars,
                   discoverVars, attachVars, callVars>>

\* get_zettels_to_publish(settings["zettelkasten path"]): ZeroDivisionError
\* when the folder has no note file.
GetZettelsToPublish ==
    /\ gs_pc = "get zettels"
    /\ LET zettel_paths ==
               GetFilePathsOfTypes(gs_zk, ListDir(gs_fs, gs_order, gs_zk),
                                   ZettelFileTypes)
           zettels_to_publish ==
               SelectSeq(zettel_paths, LAMBDA p : PublishedTagSearch(gs_fs[p]))
       IN IF zettel_paths = <<>>
          THEN gs_pc' = "raised" /\ UNCHANGED <<zettels, gs_found>>
          ELSE /\ gs_pc' = "delete md"
               /\ gs_found' = zettels_to_publish
               /\ zettels' = [k \in 1..Len(zettels_to_publish) |->
                                 Zettel(zettels_to_publish[k],
                                        gs_fs[zettels_to_publish[k]])]
    /\ UNCHANGED <<gs_zk, gs_settings, gs_fs, gs_order, gs_i, gs_events,
                   gs_old, gs_new>>
    /\ SiteFrame

\* The removals of delete_site_md_files, one path after the other.
RECURSIVE RemoveFiles(_, _)
RemoveFiles(fs, paths) ==
    IF paths = <<>> THEN fs
    ELSE RemoveFiles(FsRemove(fs, Head(paths)), Tail(paths))

\* os.mkdir(site_pages_path) and delete_site_md_files(site_pages_path).
DeleteSiteMdFiles ==
    /\ gs_pc = "delete md"
    /\ LET md_paths ==
               GetFilePathsOfTypes(SitePagesPath,
                                   ListDir(gs_fs, gs_order, SitePagesPath),
                                   ZettelFileTypes)
       IN /\ gs_fs' = RemoveFiles(gs_fs, md_paths)
          /\ gs_events' = gs_events
                 \o [k \in 1..Len(md_paths) |->
                        Event("delete_site_md_files", "remove", md_paths[k])]
    /\ gs_pc' = "copy zettels"
    /\ UNCHANGED <<zettels, gs_zk, gs_settings, gs_order, gs_i, gs_found,
                   gs_old, gs_new>>
    /\ SiteFrame

\* The loop of copy_zettels_to_site_folder from the k-th zettel on, from the
\* state st = [zettels, fs, events, raised]: shutil.copy raises
\* FileNotFoundError for a file that is not there, SameFileError for a file
\* copied onto itself.
CopyZettel(k, st) ==
    LET zettel == st.zettels[k]
        new_path == CopyZettelToSiteFolder(zettel).path
    IN IF ~FsHas(st.fs, zettel.path) \/ new_path = zettel.path
       THEN [st EXCEPT !.raised = TRUE]
       ELSE [zettels |-> [st.zettels EXCEPT ![k].path = new_path],
             fs |-> FsWrite(st.fs, new_path, st.fs[zettel.path]),
             events |-> Append(st.events,
                               Event("copy_zettels_to_site_folder", "copy",
                                     new_path)),
             raised |-> FALSE]

RECURSIVE CopyZettels(_, _)
CopyZettels(k, st) ==
    IF k > Len(st.zettels) \/ st.raised THEN st
    ELSE CHOOSE out \in {CopyZettels(k + 1, next) :
                            next \in {CopyZettel(k, st)}} : TRUE

\* copy_zettels_to_site_folder(zettels, site_path, site_pages_path)
CopyZettelsToSiteFolder ==
    /\ gs_pc = "copy zettels"
    /\ \E st \in {CopyZettels(1, [zettels |-> zettels, fs |-> gs_fs,
                                    events |-> gs_events, raised |-> FALSE])} :
          /\ zettels' = st.zettels
          /\ gs_fs' = st.fs
          /\ gs_events' = st.events
          /\ gs_pc' = IF st.raised THEN "raised" ELSE "index files"
    /\ UNCHANGED <<gs_zk, gs_settings, gs_order, gs_i, gs_found, gs_old,
                   gs_new>>
    /\ SiteFrame

\* create_md_index_files from the state st = [zettels, fs, events]: the
\* categorical index is edited (sys.exit(1) or ValueError end the run), the
\* alphabetical and the chronological index are written to the site folder
\* and a Zettel of each is appended to the list.
CreateMdIndexFiles_NotAppended(st, hide_chrono_index_dates) ==
    LET k == CategoricalIndexZettel(st.zettels)
        r == EditCategoricalIndex(st.zettels,
                 IF k = 0 THEN <<>> ELSE st.fs[st.zettels[k].path])
        alpha_path == PathJoin(SitePath, AlphabeticalIndexFileName)
        alpha == CreateAlphabeticalIndex(st.zettels)
        chrono_path == PathJoin(SitePath, ChronologicalIndexFileName)
        chrono == CreateChronologicalIndex(st.zettels, hide_chrono_index_dates)
    IN IF r.outcome /= "written"
       THEN [st EXCEPT !.outcome = r.outcome]
       ELSE [zettels |-> st.zettels,
             fs |-> FsWrite(FsWrite(FsWrite(st.fs, st.zettels[k].path,
                                            r.contents),
                                    alpha_path, alpha),
                            chrono_path, chrono),
             events |-> st.events
                 \o <<Event("edit_categorical_index_file", "write",
                            st.zettels[k].path),
                      Event("create_alphabetical_index_file", "write",
                            alpha_path),
                      Event("create_chronological_index_file", "write",
                            chrono_path)>>,
             outcome |-> "written"]

CreateMdIndexFiles(st, hide_chrono_index_dates) ==
    LET k == CategoricalIndexZettel(st.zettels)
        r == EditCategoricalIndex(st.zettels,
                 IF k = 0 THEN <<>> ELSE st.fs[st.zettels[k].path])
        alpha_path == PathJoin(SitePath, AlphabeticalIndexFileName)
        alpha == CreateAlphabeticalIndex(st.zettels)
        with_alpha == Append(st.zettels, Zettel(alpha_path, alpha))
        chrono_path == PathJoin(SitePath, ChronologicalIndexFileName)
        chrono == CreateChronologicalIndex(with_alpha, hide_chrono_index_dates)
    IN IF r.outcome /= "written"
       THEN [st EXCEPT !.outcome = r.outcome]
       ELSE [zettels |-> Append(with_alpha, Zettel(chrono_path, chrono)),
             fs |-> FsWrite(FsWrite(FsWrite(st.fs, st.zettels[k].path,
                                            r.contents),
                                    alpha_path, alpha),
                            chrono_path, chrono),
             events |-> st.events
                 \o <<Event("edit_categorical_index_file", "write",
                            st.zettels[k].path),
                      Event("create_alphabetical_index_file", "write",
                            alpha_path),
                      Event("create_chronological_index_file", "write",
                            chrono_path)>>,
             outcome |-> "written"]

\* create_md_index_files(zettels, site_path, hide_chrono_index_dates)
CreateMdIndexFilesStage ==
    /\ gs_pc = "index files"
    /\ \E st \in {CreateMdIndexFiles(
                        [zettels |-> zettels, fs |-> gs_fs,
                         events |-> gs_events, outcome |-> "none"],
                        gs_settings.hide_chrono_index_dates)} :
          /\ zettels' = st.zettels
          /\ gs_fs' = st.fs
          /\ gs_events' = st.events
          /\ gs_pc' = CASE st.outcome = "written" -> "copy attachments"
                        [] st.outcome = "exit" -> "exited"
                        [] OTHER -> "raised"
    /\ UNCHANGED <<gs_zk, gs_settings, gs_order, gs_i, gs_found, gs_old,
                   gs_new>>
    /\ SiteFrame

\* settings["patterns"]["link path"], (?<=]\().+(?=\)): after "](", the
\* longest text of the line that a ")" follows.
LinkPathEnd(t, p) ==
    LET ends == {e \in p..(Len(t) - 1) :
                    /\ \A j \in p..e : t[j] /= "\n"
                    /\ t[e + 1] = ")"}
    IN IF p >= 3 /\ p <= Len(t) /\ t[p - 2] = "]" /\ t[p - 1] = "("
          /\ ends /= {}
       THEN CHOOSE e \in ends : \A r \in ends : r <= e
       ELSE 0

\* The folders of the model, for os.path.exists.
Folders == {ZettelkastenPath, SitePath, SitePagesPath}

\* get_attachment_paths(contents, folder_path)
GetAttachmentPaths(fs, contents, folder_path) ==
    LET paths == Findall(LinkPathEnd, contents)
        file_paths == [k \in 1..Len(paths) |->
                          NormPath(PathJoin(folder_path, paths[k]))]
    IN SelectSeq(file_paths, LAMBDA p : FsHas(fs, p) \/ p \in Folders)

\* get_all_attachment_paths(zettels)
RECURSIVE GetAllAttachmentPaths(_, _)
GetAllAttachmentPaths(fs, zs) ==
    IF zs = <<>> THEN <<>>
    ELSE GetAttachmentPaths(fs, fs[Head(zs).path], Head(zs).folder_path)
             \o GetAllAttachmentPaths(fs, Tail(zs))

\* The loop of copy_attachments from the state st = [fs, events, raised]:
\* SameFileError is caught, a folder raises IsADirectoryError.
CopyAttachmentPath(path, st) ==
    LET new_path == PathJoin(SitePagesPath, Basename(path))
    IN IF path \in Folders THEN [st EXCEPT !.raised = TRUE]
       ELSE IF new_path = path THEN st
       ELSE [fs |-> FsWrite(st.fs, new_path, st.fs[path]),
             events |-> Append(st.events,
                               Event("copy_attachments", "copy", new_path)),
             raised |-> FALSE]

RECURSIVE CopyAttachmentPaths(_, _)
CopyAttachmentPaths(paths, st) ==
    IF paths = <<>> \/ st.raised THEN st
    ELSE CHOOSE out \in {CopyAttachmentPaths(Tail(paths), next) :
                            next \in {CopyAttachmentPath(Head(paths), st)}} :
             TRUE

\* copy_attachments(zettels, site_pages_path)
CopyAttachments ==
    /\ gs_pc = "copy attachments"
    /\ \E st \in {CopyAttachmentPaths(GetAllAttachmentPaths(gs_fs, zettels),
                        [fs |-> gs_fs, events |-> gs_events,
                         raised |-> FALSE])} :
          /\ gs_fs' = st.fs
          /\ gs_events' = st.events
          /\ gs_pc' = IF st.raised THEN "raised" ELSE "make relative"
    /\ UNCHANGED <<zettels, gs_zk, gs_settings, gs_order, gs_i, gs_found,
                   gs_old, gs_new>>
    /\ SiteFrame

\* The order of the steps of reformat_zettels, up to regenerate_html_files.
ReformatZettelsNext_RedirectFirst(step) ==
    CASE step = "make relative" -> "remove tags"
      [] step = "remove tags" -> "redirect links"
      [] step = "redirect links" -> "convert links"
      [] step = "convert links" -> "html files"

ReformatZettelsNext(step) ==
    CASE step = "make relative" -> "remove tags"
      [] step = "remove tags" -> "convert links"
      [] step = "convert links" -> "redirect links"
      [] step = "redirect links" -> "html files"

\* replace_pattern over file_paths, from the state st = [fs, events]: each
\* file is read, and written if something was replaced in it.
ReplacePatternInFile(stage, pattern, file_path, st) ==
    CHOOSE out \in
        {IF r.n_replaced > 0
         THEN [fs |-> FsWrite(st.fs, file_path, r.file),
               events |-> Append(st.events, Event(stage, "write", file_path))]
         ELSE st :
            r \in {ReplacePattern(pattern, st.fs[file_path])}} : TRUE

RECURSIVE ReplacePatternInFiles(_, _, _, _)
ReplacePatternInFiles(stage, pattern, file_paths, st) ==
    IF file_paths = <<>> THEN st
    ELSE CHOOSE out \in
             {ReplacePatternInFiles(stage, pattern, Tail(file_paths), next) :
                 next \in {ReplacePatternInFile(stage, pattern,
                                                Head(file_paths), st)}} : TRUE

\* replace_pattern over file_paths with file_must_exist=True.
ReplaceFilePathsInFile(stage, file_path, st) ==
    CHOOSE out \in
        {IF r.n_replaced > 0
         THEN [fs |-> FsWrite(st.fs, file_path, r.file),
               events |-> Append(st.events, Event(stage, "write", file_path))]
         ELSE st :
            r \in {ReplacePatternFileMustExist(st.fs[file_path],
                                               DOMAIN st.fs)}} : TRUE

RECURSIVE ReplaceFilePathsInFiles(_, _, _)
ReplaceFilePathsInFiles(stage, file_paths, st) ==
    IF file_paths = <<>> THEN st
    ELSE CHOOSE out \in
             {ReplaceFilePathsInFiles(stage, Tail(file_paths), next) :
                 next \in {ReplaceFilePathsInFile(stage, Head(file_paths),
                                                  st)}} : TRUE

\* zettel_paths = [z.path for z in zettels]
ZettelPaths(zs) == [k \in 1..Len(zs) |-> zs[k].path]

\* reformat_zettels: make_file_paths_relative(zettels)
SiteMakeFilePathsRelative ==
    /\ gs_pc = "make relative"
    /\ \E st \in {ReplaceFilePathsInFiles("make_file_paths_relative",
                        ZettelPaths(zettels),
                        [fs |-> gs_fs, events |-> gs_events])} :
          gs_fs' = st.fs /\ gs_events' = st.events
    /\ gs_pc' = ReformatZettelsNext("make relative")
    /\ UNCHANGED <<zettels, gs_zk, gs_settings, gs_order, gs_i, gs_found,
                   gs_old, gs_new>>
    /\ SiteFrame

\* reformat_zettels: remove_all_tags(zettels) if settings["hide tags"].
SiteRemoveAllTags ==
    /\ gs_pc = "remove tags"
    /\ \E st \in {IF gs_settings.hide_tags
                    THEN ReplacePatternInFiles("remove_all_tags", "tag",
                             ZettelPaths(zettels),
                             [fs |-> gs_fs, events |-> gs_events])
                    ELSE [fs |-> gs_fs, events |-> gs_events]} :
          gs_fs' = st.fs /\ gs_events' = st.events
    /\ gs_pc' = ReformatZettelsNext("remove tags")
    /\ gs_i' = 0
    /\ UNCHANGED <<zettels, gs_zk, gs_settings, gs_order, gs_found, gs_old,
                   gs_new>>
    /\ SiteFrame

\* One turn of the loop of convert_links_from_zk_to_md(zettels,
\* md_linker=md_linker): the links of the next zettel are converted and
\* the file saved; the end of the loop.
ConvertLinksFromZkToMd ==
    /\ gs_pc = "convert links"
    /\ IF gs_i = Len(zettels)
       THEN /\ gs_pc' = ReformatZettelsNext("convert links")
            /\ UNCHANGED <<gs_fs, gs_events, gs_i>>
       ELSE LET i == gs_i + 1
                contents == gs_fs[zettels[i].path]
            IN /\ gs_i' = i
               /\ IF contents = <<>>
                  THEN UNCHANGED <<gs_fs, gs_events, gs_pc>>
                  ELSE \E ids \in Orders(LinkIds(contents)) :
                          \E st \in {ConvertLoop(i, zettels, ids,
                                        [contents |-> contents, log |-> <<>>,
                                         links |-> <<>>, crashed |-> FALSE])} :
                             IF st.crashed
                             THEN /\ gs_pc' = "raised"
                                  /\ UNCHANGED <<gs_fs, gs_events>>
                             ELSE /\ gs_fs' = FsWrite(gs_fs, zettels[i].path,
                                                      st.contents)
                                  /\ gs_events' = Append(gs_events,
                                         Event("convert_links_from_zk_to_md",
                                               "write", zettels[i].path))
                                  /\ UNCHANGED gs_pc
    /\ UNCHANGED <<zettels, gs_zk, gs_settings, gs_order, gs_found, gs_old,
                   gs_new>>
    /\ SiteFrame

\* redirect_links_from_md_to_html(zettels)
RedirectLinks ==
    /\ gs_pc = "redirect links"
    /\ \E st \in {ReplacePatternInFiles("redirect_links_from_md_to_html",
                        "md ext in link", ZettelPaths(zettels),
                        [fs |-> gs_fs, events |-> gs_events])} :
          gs_fs' = st.fs /\ gs_events' = st.events
    /\ gs_pc' = ReformatZettelsNext("redirect links")
    /\ gs_i' = 0
    /\ UNCHANGED <<zettels, gs_zk, gs_settings, gs_order, gs_found, gs_old,
                   gs_new>>
    /\ SiteFrame

\* The text Zettel.create_html_file writes: the markdown text converted by
\* HTMLConverter, kept here as the markdown text under an HTML mark.
HtmlText(md_text) == <<"<html>">> \o md_text

\* create_html_files(zettels) from the state st = [fs, events, paths].
CreateHtmlFile(zettel, st) ==
    LET html_path == CreateHtmlPath(zettel.path)
    IN [fs |-> FsWrite(st.fs, html_path, HtmlText(st.fs[zettel.path])),
        events |-> Append(st.events,
                          Event("create_html_files", "write", html_path)),
        paths |-> Append(st.paths, html_path)]

RECURSIVE CreateHtmlFiles(_, _)
CreateHtmlFiles(zs, st) ==
    IF zs = <<>> THEN st
    ELSE CHOOSE out \in {CreateHtmlFiles(Tail(zs), next) :
                            next \in {CreateHtmlFile(Head(zs), st)}} : TRUE

\* regenerate_html_files up to delete_old_html_files: old_html_paths is
\* read from the two folders, then the HTML files are created and their
\* paths normalised.
RegenerateHtmlFiles ==
    /\ gs_pc = "html files"
    /\ LET old_html_paths ==
               GetFilePaths(SitePath, ListDir(gs_fs, gs_order, SitePath),
                            ExtHtml)
               \o GetFilePaths(SitePagesPath,
                      ListDir(gs_fs, gs_order, SitePagesPath), ExtHtml)
       IN \E st \in {CreateHtmlFiles(zettels,
                        [fs |-> gs_fs,
                         events |-> Append(gs_events,
                                        Event("regenerate_html_files", "list",
                                              SitePath)),
                         paths |-> <<>>])} :
          /\ gs_old' = old_html_paths
          /\ gs_fs' = st.fs
          /\ gs_events' = st.events
          /\ gs_new' = [k \in 1..Len(st.paths) |-> NormPath(st.paths[k])]
    /\ gs_pc' = "delete old"
    /\ UNCHANGED <<zettels, gs_zk, gs_settings, gs_order, gs_i, gs_found>>
    /\ SiteFrame

\* delete_old_html_files(old_html_paths, new_html_paths, site_pages_path):
\* ssg-ignore.txt is not there; a window is shown for each old file and
\* the user sends it to the trash or keeps it.  regenerate_html_files
\* returns new_html_paths.
DeleteOldHtmlFiles ==
    /\ gs_pc = "delete old"
    /\ LET shown == SelectSeq([k \in 1..Len(gs_old) |-> NormPath(gs_old[k])],
                        LAMBDA p : IsOldFile(p, gs_new, <<>>))
       IN \E deleted \in SUBSET (1..Len(shown)) :
             \E trashed \in {Subseq(shown, {shown[k] : k \in deleted})} :
                /\ gs_fs' = RemoveFiles(gs_fs, trashed)
                /\ gs_events' = gs_events
                       \o [k \in 1..Len(trashed) |->
                              Event("delete_old_html_files", "trash",
                                    trashed[k])]
    /\ gs_pc' = "reformat html"
    /\ UNCHANGED <<zettels, gs_zk, gs_settings, gs_order, gs_i, gs_found,
                   gs_old, gs_new>>
    /\ SiteFrame

\* The files of the site folder the last stages write.
HeaderHtmlPath == PathJoin(SitePath, HeaderHtml)
FooterHtmlPath == PathJoin(SitePath, FooterHtml)
StyleCssPath == PathJoin(SitePath, <<"s", "t", "y", "l", "e", ".", "c", "s", "s">>)
IndexHtmlPaths ==
    <<PathJoin(SitePath, IndexHtmlName),
      PathJoin(SitePath, AlphaIndexName \o ExtHtml),
      PathJoin(SitePath, ChronoIndexName \o ExtHtml)>>

\* copy_file_iff_not_present(file_name, site_path), from the state
\* st = [fs, events, raised].
CopyFileIffNotPresent(site_file_path, st) ==
    IF FsHas(st.fs, site_file_path) THEN st
    ELSE [st EXCEPT !.fs = FsWrite(st.fs, site_file_path, <<"<template>">>),
                    !.events = Append(st.events,
                                      Event("copy_file_iff_not_present",
                                            "copy", site_file_path))]

\* The writes of a list of files that are there, from the state
\* st = [fs, events, raised]: a file opened with "r+" that is not there
\* raises FileNotFoundError.
RewriteFile(stage, path, st) ==
    IF ~FsHas(st.fs, path) THEN [st EXCEPT !.raised = TRUE]
    ELSE [fs |-> FsWrite(st.fs, path, <<"<header>">> \o st.fs[path]),
          events |-> Append(st.events, Event(stage, "write", path)),
          raised |-> FALSE]

RECURSIVE RewriteFiles(_, _, _)
RewriteFiles(stage, paths, st) ==
    IF paths = <<>> \/ st.raised THEN st
    ELSE CHOOSE out \in {RewriteFiles(stage, Tail(paths), next) :
                            next \in {RewriteFile(stage, Head(paths), st)}} :
             TRUE

\* reformat_html_files(site_path, new_html_paths) and check_style(site_path),
\* by the files they write: each new HTML file, index.html (the copyright
\* notice is appended), header.html and footer.html if they are not there,
\* the three index pages (insert_all_index_links), style.css.
ReformatHtmlFiles ==
    /\ gs_pc = "reformat html"
    /\ LET index_html == PathJoin(SitePath, IndexHtmlName)
       IN \E appended \in
                 {[fs |-> FsWrite(gs_fs, index_html,
                             (IF FsHas(gs_fs, index_html)
                              THEN gs_fs[index_html]
                              ELSE <<>>) \o <<"<p>">>),
                   events |-> Append(gs_events,
                                  Event("append_copyright_notice", "write",
                                        index_html)),
                   raised |-> FALSE]} :
          \E header \in {CopyFileIffNotPresent(HeaderHtmlPath, appended)} :
          \E footer \in {CopyFileIffNotPresent(FooterHtmlPath, header)} :
          \E wrapped \in {RewriteFiles("wrap_template_html", gs_new, footer)} :
          \E linked \in {RewriteFiles("insert_all_index_links",
                                      IndexHtmlPaths, wrapped)} :
             IF linked.raised
             THEN /\ gs_fs' = linked.fs
                  /\ gs_events' = linked.events
                  /\ gs_pc' = "raised"
             ELSE \E styled \in {CopyFileIffNotPresent(StyleCssPath, linked)} :
                     /\ gs_fs' = styled.fs
                     /\ gs_events' = styled.events
                     /\ gs_pc' = "done"
    /\ UNCHANGED <<zettels, gs_zk, gs_settings, gs_order, gs_i, gs_found,
                   gs_old, gs_new>>
    /\ SiteFrame

NextSite ==
    \/ GetZettelsToPublish
    \/ DeleteSiteMdFiles
    \/ CopyZettelsToSiteFolder
    \/ CreateMdIndexFilesStage
    \/ CopyAttachments
    \/ SiteMakeFilePathsRelative
    \/ SiteRemoveAllTags
    \/ ConvertLinksFromZkToMd
    \/ RedirectLinks
    \/ RegenerateHtmlFiles
    \/ DeleteOldHtmlFiles
    \/ ReformatHtmlFiles

SpecSite == InitSite /\ [][NextSite]_vars

\* The indexes of the file operations of a stage, in the order they happen.
EventsOf(stage) == {i \in 1..Len(gs_events) : gs_events[i].stage = stage}

\* The path names a file of the folder, at any depth.
InFolder(folder_path, path) == StartsAt(path, 1, folder_path \o <<"/">>)

\* C23: after create_md_index_files the alphabetical and the chronological
\* index page are the last two Notes of the collection the later stages
\* walk, and the list regenerate_html_files returns holds, in the order of
\* the collection, the HTML path of every discovered note and of the two
\* index pages, each naming a file that is there.
C23_IndexPagesJoinWorkingSet ==
    /\ gs_pc \in {"copy attachments", "make relative", "remove tags",
                  "convert links", "redirect links", "html files",
                  "delete old", "reformat html"}
           => /\ Len(zettels) = Len(gs_found) + 2
              /\ \A k \in 1..Len(gs_found) :
                    Basename(zettels[k].path) = Basename(gs_found[k])
              /\ zettels[Len(gs_found) + 1].path
                     = PathJoin(SitePath, AlphabeticalIndexFileName)
              /\ zettels[Len(gs_found) + 2].path
                     = PathJoin(SitePath, ChronologicalIndexFileName)
    /\ gs_pc = "reformat html"
           => /\ gs_new = [k \in 1..Len(zettels) |->
                              NormPath(CreateHtmlPath(zettels[k].path))]
              /\ \A k \in 1..Len(gs_new) : FsHas(gs_fs, gs_new[k])

\* A run with two discovered notes in which regenerate_html_files has
\* returned its list.
C23_Witness ==
    /\ gs_pc = "reformat html"
    /\ Len(gs_found) >= 2
    /\ Len(gs_new) = Len(gs_found) + 2

\* C25: every file written by the .md-to-.html redirect is written after
\* every file written by the wiki-to-markdown conversion, and only once the
\* conversion has written every note; every HTML file is created after all
\* of these, and after old_html_paths was read.
C25_StageOrdering ==
    LET convert == EventsOf("convert_links_from_zk_to_md")
        redirect == EventsOf("redirect_links_from_md_to_html")
        html == EventsOf("create_html_files")
        listed == EventsOf("regenerate_html_files")
    IN /\ \A i \in redirect : \A j \in convert : j < i
       /\ redirect /= {}
              => /\ gs_pc \notin {"convert links", "remove tags",
                                  "make relative"}
                 /\ \A k \in 1..Len(zettels) :
                       \E j \in convert : gs_events[j].path = zettels[k].path
       /\ \A i \in html : \A j \in convert \cup redirect : j < i
       /\ \A i \in html : \E j \in listed : j < i

\* A run in which the conversion and the redirect have written files and
\* the HTML files have been created.
C25_Witness ==
    /\ gs_pc = "delete old"
    /\ EventsOf("convert_links_from_zk_to_md") /= {}
    /\ EventsOf("redirect_links_from_md_to_html") /= {}
    /\ EventsOf("create_html_files") /= {}

\* C27: at every point of a run the note collection holds at most one Note
\* for a file path, and the list of HTML paths names no path twice.
C27_OneNotePerFile ==
    /\ \A i, j \in 1..Len(zettels) :
          i /= j => zettels[i].path /= zettels[j].path
    /\ \A i, j \in 1..Len(gs_new) : i /= j => gs_new[i] /= gs_new[j]

\* C28: in a run whose zettelkasten folder is not the site folder, no stage
\* copies to, writes, removes or sends to the trash a file of the
\* zettelkasten folder, and every such operation is on a file of the site
\* folder.
C28_SourceFolderReadOnly ==
    gs_zk /= SitePath =>
        \A i \in 1..Len(gs_events) :
            gs_events[i].op /= "list"
                => /\ ~InFolder(gs_zk, gs_events[i].path)
                   /\ InFolder(SitePath, gs_events[i].path)

\* The same for a zettelkasten folder outside the site folder.
SourceOutsideSiteReadOnly ==
    ~InFolder(SitePath, gs_zk) /\ gs_zk /= SitePath =>
        \A i \in 1..Len(gs_events) :
            gs_events[i].op /= "list"
                => /\ ~InFolder(gs_zk, gs_events[i].path)
                   /\ InFolder(SitePath, gs_events[i].path)

=============================================================================
